---- MODULE Spec2Model ----
(***************************************************************************)
(* Model of the VU LMS todo automation pipeline:                           *)
(*   - the Store (mongoose models User, Activity, Notification),           *)
(*   - the NotificationScheduler singleton (scheduleNotifications,         *)
(*     processPendingNotifications, retryFailedNotifications),             *)
(*   - the WhatsAppClient singleton (isReady flag),                        *)
(*   - the ingestion part of POST /api/scrape,                             *)
(*   - the startup of the background server (startBackgroundServices).     *)
(*                                                                         *)
(* Two operating-system processes share the Store: the background server   *)
(* (server.js, which initializes the WhatsApp client and owns the 5-minute *)
(* interval) and the Next.js application (the API routes).  server.js      *)
(* "runs alongside Next.js server" and the routes reach its WhatsApp       *)
(* client only over http://localhost:3001, so each process has its own     *)
(* instance of the module singletons `scheduler` and `whatsappClient`.     *)
(*                                                                         *)
(* Every `await` of the source is a point where other handlers may run;    *)
(* the code between two awaits is one atomic action.                       *)
(***************************************************************************)
EXTENDS Integers, Sequences, FiniteSets, TLC

----------------------------------------------------------------------------
\* Bounds of the model (not program constants).

\* last instant of the wall clock
MaxTime == 2
\* successful channel deliveries recorded per Notification
MaxDeliver == 2
\* due Notifications beyond the limit of one dispatch query
BatchExtra == 1

----------------------------------------------------------------------------
\* Program constants.

\* one calendar day, in clock units (the clock ticks twice a day)
OneDay == 2
\* .limit(50) of the dispatch query
DispatchLimit == 50
\* attempts: { $lt: 3 } of the retry query
MaxAttempts == 3

\* a null Date
NoDate == -1
\* a null error string
NoError == "null"

\* the first instant of the next calendar month: the clock starts at the
\* midnight that begins the second-last day of a month
NextMonthAt == 2 * OneDay

Min(a, b) == IF a < b THEN a ELSE b

----------------------------------------------------------------------------
\* The processes and the invocation slots of the handlers.

Procs == {"server", "next"}

\* timer1, timer2: two firings of the setInterval callback of server.js;
\* post: a POST /api/notifications/process request served by Next.js.
CycleSlots == {"timer1", "timer2", "post"}

ProcOf(c) == IF c = "post" THEN "next" ELSE "server"

\* two invocations of retryFailedNotifications
RetrySlots == {"r1", "r2"}

\* two POST /api/scrape requests
RunSlots == {"a", "b"}

\* the callers of scheduleNotifications: the requests, and a caller that
\* invokes the exported scheduler for a stored Activity
SchedCallers == RunSlots \cup {"direct"}

VARIABLES
    now,            \* the wall clock (new Date())
    users,          \* Store: User collection, _id = index
    activities,     \* Store: Activity collection, _id = index
    notifications,  \* Store: Notification collection, _id = index
    delivered,      \* per Notification: messages the channel delivered for it
    isReady,        \* WhatsAppClient.isReady of each process
    isProcessing,   \* NotificationScheduler.isProcessing of each process
    cyc,            \* the processPendingNotifications invocation of each slot
    result,         \* what the invocation that returned last returned
    rt,             \* the retryFailedNotifications invocation of each slot
    rresult,        \* what the retry sweep that returned last returned
    run,            \* the POST /api/scrape request of each slot
    sch,            \* the scheduleNotifications invocation of each caller
    srv             \* the background server: startup position, processInterval

storeVars == <<users, activities, notifications>>
dispVars == <<delivered, isReady, isProcessing, cyc, result, rt, rresult, srv>>
ingVars == <<run, sch>>

----------------------------------------------------------------------------
\* Store: Notification documents.

NotifIds == 1..Len(notifications)

\* Notification.create: the schema defaults of a new document
NewNotification(activityId, userId, type, scheduledFor) ==
    [activityId |-> activityId, userId |-> userId, notificationType |-> type,
     scheduledFor |-> scheduledFor, sentAt |-> NoDate, status |-> "pending",
     error |-> NoError, attempts |-> 0]

\* (mutant) no unique index on the Notification collection
NotifIndexOff(notifs, doc) == TRUE

\* the unique index { activityId: 1, notificationType: 1 }
NotifIndexFree(notifs, doc) ==
    \A i \in 1..Len(notifs) :
        ~(notifs[i].activityId = doc.activityId
          /\ notifs[i].notificationType = doc.notificationType)

\* notification.markAsSent(): save() writes the modified paths of the
\* in-memory document back to the stored one
markAsSent(stored, tnow) ==
    [stored EXCEPT !.status = "sent", !.sentAt = tnow]

\* (mutant) a failure that does not count the attempt
markAsFailedNoCount(stored, doc, errorMessage) ==
    [stored EXCEPT !.status = "failed", !.error = errorMessage]

\* notification.markAsFailed(errorMessage): attempts is computed from the
\* in-memory document `doc`
markAsFailed(stored, doc, errorMessage) ==
    [stored EXCEPT !.status = "failed", !.error = errorMessage,
                   !.attempts = doc.attempts + 1]

----------------------------------------------------------------------------
\* processPendingNotifications

\* the ids of the collection in natural order
AllIds(n) == [i \in 1..n |-> i]

\* the in-memory document of a query result, userId populated
LoadDoc(id) ==
    [id |-> id,
     status |-> notifications[id].status,
     scheduledFor |-> notifications[id].scheduledFor,
     sentAt |-> notifications[id].sentAt,
     error |-> notifications[id].error,
     attempts |-> notifications[id].attempts,
     active |-> users[notifications[id].userId].isActive]

\* (mutant) the query forgets the scheduledFor condition
PendingAny(tnow) ==
    LET Keep(i) == notifications[i].status = "pending"
    IN  SelectSeq(AllIds(Len(notifications)), Keep)

\* Notification.find({status: 'pending', scheduledFor: {$lte: now}})
PendingDue(tnow) ==
    LET Keep(i) == /\ notifications[i].status = "pending"
                   /\ notifications[i].scheduledFor <= tnow
    IN  SelectSeq(AllIds(Len(notifications)), Keep)

\* ... .populate(...).limit(50)
FindPending(tnow) ==
    LET ids == PendingDue(tnow)
    IN  [k \in 1..Min(Len(ids), DispatchLimit) |-> LoadDoc(ids[k])]

IdleCycle ==
    [pc |-> "idle", now |-> 0, sel |-> <<>>, idx |-> 0,
     sent |-> 0, failed |-> 0, checks |-> 0]

NoResult == [kind |-> "none"]

\* return { processed: 0, sent: 0, failed: 0 } of the guard
SkippedResult(c) ==
    [slot |-> c, kind |-> "skipped", processed |-> 0, sent |-> 0, failed |-> 0,
     checks |-> 0]

\* (mutant) no re-entrancy guard
GuardNever(p) == FALSE

\* the guard at the head of processPendingNotifications
GuardBusy(p) == isProcessing[p]

\* The head of processPendingNotifications: either the re-entrancy guard
\* returns at once, or the flag is taken, `now` is read and the query is
\* issued.
Enter(c) ==
    /\ cyc[c].pc = "idle"
    /\ IF GuardBusy(ProcOf(c))
       THEN /\ result' = SkippedResult(c)
            /\ UNCHANGED <<cyc, isProcessing>>
       ELSE /\ isProcessing' = [isProcessing EXCEPT ![ProcOf(c)] = TRUE]
            /\ cyc' = [cyc EXCEPT ![c] = [IdleCycle EXCEPT !.pc = "find", !.now = now]]
            /\ UNCHANGED result

\* processPendingNotifications is called by the interval callback or by the
\* route handler
Invoke(c) ==
    /\ Enter(c)
    /\ UNCHANGED <<srv, ingVars, now, storeVars, delivered, isReady, rt, rresult>>

\* The query resolves.
Find(c) ==
    /\ cyc[c].pc = "find"
    /\ cyc' = [cyc EXCEPT ![c].pc = "loop", ![c].idx = 1,
                          ![c].sel = FindPending(cyc[c].now)]
    /\ UNCHANGED <<srv, ingVars, now, storeVars, delivered, isReady, isProcessing, result, rt, rresult>>

\* return { processed: pendingNotifications.length, sent, failed } and the
\* finally block
Return(c, kind, checks) ==
    /\ result' = [slot |-> c, kind |-> kind, processed |-> Len(cyc[c].sel),
                  sent |-> cyc[c].sent, failed |-> cyc[c].failed,
                  checks |-> checks]
    /\ cyc' = [cyc EXCEPT ![c] = IdleCycle]
    /\ isProcessing' = [isProcessing EXCEPT ![ProcOf(c)] = FALSE]

\* (mutant) a channel that is not ready is recorded as a failed delivery
NotReadyMarkFailed(c) ==
    /\ Return(c, "aborted", cyc[c].checks + 1)
    /\ notifications' = [notifications EXCEPT ![cyc[c].sel[cyc[c].idx].id] =
                            markAsFailed(@, cyc[c].sel[cyc[c].idx], "not ready")]

\* if (!whatsappClient.isClientReady()) { ...; break; } and the return after
\* the loop
NotReadyBreak(c) ==
    /\ Return(c, "aborted", cyc[c].checks + 1)
    /\ UNCHANGED notifications

\* (mutant) a Notification of an inactive User is sent like any other
SkipInactiveSends(c, k) ==
    /\ cyc' = [cyc EXCEPT ![c].pc = "sending", ![c].checks = @ + k]
    /\ UNCHANGED <<notifications, isProcessing, result>>

\* if (!notification.userId.isActive) { await markAsFailed(...); failed++; continue; }
\* (k: the readiness checks this iteration made)
SkipInactive(c, k) ==
    LET doc == cyc[c].sel[cyc[c].idx]
    IN  /\ notifications' = [notifications EXCEPT ![doc.id] =
                                markAsFailed(@, doc, "User is inactive")]
        /\ cyc' = [cyc EXCEPT ![c].failed = @ + 1, ![c].idx = @ + 1,
                              ![c].checks = @ + k]
        /\ UNCHANGED <<isProcessing, result>>

\* formatMessage(...) and the call of whatsappClient.sendMessage
StartSend(c, k) ==
    /\ cyc' = [cyc EXCEPT ![c].pc = "sending", ![c].checks = @ + k]
    /\ UNCHANGED <<notifications, isProcessing, result>>

\* (mutant) readiness is consulted before the first Notification only
IterationCheckOnce(c) ==
    IF cyc[c].idx = 1 /\ ~isReady[ProcOf(c)] THEN NotReadyBreak(c)
    ELSE IF ~cyc[c].sel[cyc[c].idx].active
         THEN SkipInactive(c, IF cyc[c].idx = 1 THEN 1 ELSE 0)
    ELSE StartSend(c, IF cyc[c].idx = 1 THEN 1 ELSE 0)

\* One iteration of the for loop, up to its first await.
Iteration(c) ==
    IF ~isReady[ProcOf(c)] THEN NotReadyBreak(c)
    ELSE IF ~cyc[c].sel[cyc[c].idx].active THEN SkipInactive(c, 1)
    ELSE StartSend(c, 1)

\* The for loop takes the next selected Notification, or ends.
LoopHead(c) ==
    /\ cyc[c].pc = "loop"
    /\ IF cyc[c].idx > Len(cyc[c].sel)
       THEN /\ Return(c, "completed", cyc[c].checks)
            /\ UNCHANGED notifications
       ELSE Iteration(c)
    /\ UNCHANGED <<srv, ingVars, now, users, activities, delivered, isReady, rt, rresult>>

\* whatsappClient.sendMessage resolved, then markAsSent()
SendOk(c) ==
    /\ cyc[c].pc = "sending"
    /\ LET doc == cyc[c].sel[cyc[c].idx]
       IN  /\ delivered[doc.id] < MaxDeliver
           /\ delivered' = [delivered EXCEPT ![doc.id] = @ + 1]
           /\ notifications' = [notifications EXCEPT ![doc.id] = markAsSent(@, now)]
    /\ cyc' = [cyc EXCEPT ![c].pc = "pause", ![c].sent = @ + 1]
    /\ UNCHANGED <<srv, ingVars, now, users, activities, isReady, isProcessing, result, rt, rresult>>

\* (mutant) a failed send ends the loop
SendFailBreaks(c) ==
    /\ cyc[c].pc = "sending"
    /\ LET doc == cyc[c].sel[cyc[c].idx]
       IN  notifications' = [notifications EXCEPT ![doc.id] =
                                markAsFailed(@, doc, "send error")]
    /\ result' = [slot |-> c, kind |-> "completed", processed |-> Len(cyc[c].sel),
                  sent |-> cyc[c].sent, failed |-> cyc[c].failed + 1,
                  checks |-> cyc[c].checks]
    /\ cyc' = [cyc EXCEPT ![c] = IdleCycle]
    /\ isProcessing' = [isProcessing EXCEPT ![ProcOf(c)] = FALSE]
    /\ UNCHANGED <<srv, ingVars, now, users, activities, delivered, isReady, rt, rresult>>

\* whatsappClient.sendMessage threw: the catch block, markAsFailed(message)
SendFail(c) ==
    /\ cyc[c].pc = "sending"
    /\ LET doc == cyc[c].sel[cyc[c].idx]
       IN  notifications' = [notifications EXCEPT ![doc.id] =
                                markAsFailed(@, doc, "send error")]
    /\ cyc' = [cyc EXCEPT ![c].pc = "loop", ![c].failed = @ + 1, ![c].idx = @ + 1]
    /\ UNCHANGED <<srv, ingVars, now, users, activities, delivered, isReady, isProcessing,
                   result, rt, rresult>>

\* Notification.find rejects (a Store error): the outer catch rethrows and
\* the finally block resets the flag
FindThrows(c) ==
    /\ cyc[c].pc = "find"
    /\ Return(c, "threw", cyc[c].checks)
    /\ UNCHANGED <<srv, ingVars, now, storeVars, delivered, isReady, rt, rresult>>

\* (mutant) the flag is reset on the return path only
RecordThrowsKeepsFlag(c) ==
    /\ cyc[c].pc = "sending"
    /\ result' = [slot |-> c, kind |-> "threw", processed |-> Len(cyc[c].sel),
                  sent |-> cyc[c].sent, failed |-> cyc[c].failed,
                  checks |-> cyc[c].checks]
    /\ cyc' = [cyc EXCEPT ![c] = IdleCycle]
    /\ UNCHANGED <<srv, ingVars, now, storeVars, delivered, isReady, isProcessing,
                   rt, rresult>>

\* whatsappClient.sendMessage threw and markAsFailed in the catch block of
\* the Notification rejects: the error leaves the loop, the outer catch
\* rethrows it and the finally block resets the flag
RecordThrows(c) ==
    /\ cyc[c].pc = "sending"
    /\ Return(c, "threw", cyc[c].checks)
    /\ UNCHANGED <<srv, ingVars, now, storeVars, delivered, isReady, rt, rresult>>

\* the 2000 ms delay after a sent message elapsed
Pause(c) ==
    /\ cyc[c].pc = "pause"
    /\ cyc' = [cyc EXCEPT ![c].pc = "loop", ![c].idx = @ + 1]
    /\ UNCHANGED <<srv, ingVars, now, storeVars, delivered, isReady, isProcessing, result, rt, rresult>>

----------------------------------------------------------------------------
\* retryFailedNotifications

IdleRetry == [pc |-> "idle", sel |-> <<>>, idx |-> 0]

\* (mutant) the retry query without the bound on attempts
FailedAnyAttempts(tnow) ==
    LET Keep(i) == /\ notifications[i].status = "failed"
                   /\ notifications[i].scheduledFor <= tnow
    IN  SelectSeq(AllIds(Len(notifications)), Keep)

\* Notification.find({status: 'failed', attempts: {$lt: 3}, scheduledFor: {$lte: new Date()}})
FailedRetryable(tnow) ==
    LET Keep(i) == /\ notifications[i].status = "failed"
                   /\ notifications[i].attempts < MaxAttempts
                   /\ notifications[i].scheduledFor <= tnow
    IN  SelectSeq(AllIds(Len(notifications)), Keep)

\* The query resolves; with nothing to retry the sweep returns 0.
RetryFind(r) ==
    /\ rt[r].pc = "idle"
    /\ LET ids == FailedRetryable(now)
       IN  IF ids = <<>>
           THEN /\ rresult' = 0
                /\ UNCHANGED rt
           ELSE /\ rt' = [rt EXCEPT ![r] = [pc |-> "saving", sel |-> ids, idx |-> 1]]
                /\ UNCHANGED rresult
    /\ UNCHANGED <<srv, ingVars, now, storeVars, delivered, isReady, isProcessing, cyc, result>>

\* notification.status = 'pending'; await notification.save(), and after the
\* last one: return failedNotifications.length
RetrySave(r) ==
    /\ rt[r].pc = "saving"
    /\ LET id == rt[r].sel[rt[r].idx]
       IN  notifications' = [notifications EXCEPT ![id].status = "pending"]
    /\ IF rt[r].idx = Len(rt[r].sel)
       THEN /\ rt' = [rt EXCEPT ![r] = IdleRetry]
            /\ rresult' = Len(rt[r].sel)
       ELSE /\ rt' = [rt EXCEPT ![r].idx = @ + 1]
            /\ UNCHANGED rresult
    /\ UNCHANGED <<srv, ingVars, now, users, activities, delivered, isReady, isProcessing, cyc, result>>

----------------------------------------------------------------------------
\* The inputs of POST /api/scrape.

\* the students of a request body
s1 == [username |-> "u1", password |-> "p1", whatsapp |-> "w1"]
s2 == [username |-> "u2", password |-> "p2", whatsapp |-> "w2"]

StudentLists == { <<s1>>, <<s2, s1>> }

\* the request bodies of two concurrent requests
SingleStudentLists == { <<s1>> }

\* the activities the scraper extracts (course codes and titles are upper
\* case and trimmed, as the scraper leaves them)
rQuiz ==
    [course_code |-> <<"C">>, activity_type |-> "Quiz", title |-> <<"q">>,
     start_date |-> NoDate, due_date |-> 3, link |-> "l1"]
rAsg ==
    [course_code |-> <<"C">>, activity_type |-> "Assignment", title |-> <<"a">>,
     start_date |-> 1, due_date |-> 4, link |-> "l2"]
rOld ==
    [course_code |-> <<"C">>, activity_type |-> "Quiz", title |-> <<"o">>,
     start_date |-> NoDate, due_date |-> 1, link |-> "l3"]

ScrapeResults == { <<rAsg>>, <<rOld, rQuiz>> }

\* a third student, and student s1 with another WhatsApp number
s3 == [username |-> "u3", password |-> "p3", whatsapp |-> "w3"]
s1b == [username |-> "u1", password |-> "p1", whatsapp |-> "w9"]

\* the request bodies of a single request
RunStudentLists == { <<s1, s2, s3>>, <<s1, s1b>> }

\* an activity due at the midnight that began the first day of the clock,
\* and one due nine days later
rMorning ==
    [course_code |-> <<"C">>, activity_type |-> "Quiz", title |-> <<"m">>,
     start_date |-> NoDate, due_date |-> 0, link |-> "l4"]
rFar ==
    [course_code |-> <<"C">>, activity_type |-> "GDB", title |-> <<"f">>,
     start_date |-> NoDate, due_date |-> 9 * OneDay, link |-> "l5"]

\* the calendars of a single request
RunScrapeResults == { <<rAsg, rQuiz>>, <<rQuiz, rMorning>>, <<rOld, rFar>> }

\* rAsg observed again after the LMS changed its type, its open date and
\* its link
rAsgMoved ==
    [course_code |-> <<"C">>, activity_type |-> "GDB", title |-> <<"a">>,
     start_date |-> 3, due_date |-> 4, link |-> "l9"]

\* two table rows whose course code and title cells hold the character "|":
\* course code "C|x" with title "y", and course code "C" with title "x|y"
rBarCode ==
    [course_code |-> <<"C", "|", "x">>, activity_type |-> "Quiz", title |-> <<"y">>,
     start_date |-> NoDate, due_date |-> 4, link |-> "l6"]
rBarTitle ==
    [course_code |-> <<"C">>, activity_type |-> "Quiz", title |-> <<"x", "|", "y">>,
     start_date |-> NoDate, due_date |-> 4, link |-> "l7"]

\* the calendars of a student whose calendar is read twice
RepeatScrapeResults == { <<rAsg>>, <<rAsgMoved>>, <<rBarCode>>, <<rBarTitle>> }

\* the request body that lists student s1 twice
RepeatStudentLists == { <<s1, s1b>> }

----------------------------------------------------------------------------
\* Store: User and Activity documents.

\* bcrypt.hash of the pre('save') hook
Bcrypt(password) == <<"bcrypt", password>>

\* User.create({username, password, whatsapp, isActive: true})
NewUser(student) ==
    [username |-> student.username, password |-> Bcrypt(student.password),
     whatsapp |-> student.whatsapp, isActive |-> TRUE]

\* User.findOne({ username }): the _id, 0 for null
FindUserId(username) ==
    IF \E u \in 1..Len(users) : users[u].username = username
    THEN CHOOSE u \in 1..Len(users) : users[u].username = username
    ELSE 0

\* `${dueDate}`: Date.prototype.toString() has a resolution of one second,
\* finer than the unit of the clock
DateToString(d) == <<ToString(d)>>

\* Activity.generateHash: the digest of `${userId}|${courseCode}|${title}|${dueDate}`;
\* strings are sequences of characters, the digest is taken as injective on
\* the concatenated string
generateHash(userId, courseCode, title, dueDate) ==
    <<ToString(userId)>> \o <<"|">> \o courseCode \o <<"|">> \o title \o <<"|">>
        \o DateToString(dueDate)

\* (mutant) the instant itself, without setHours
StartOfDayIsNow(t) == t

\* new Date(); setHours(0, 0, 0, 0)
StartOfDay(t) == t - (t % OneDay)

\* (mutant) nothing is past
isPastNever(dueDate, today) == FALSE

\* const isPast = !dueDate || dueDate < now
isPast(dueDate, today) == dueDate = NoDate \/ dueDate < today

\* the document of Activity.create
NewActivity(userId, raw, hash) ==
    [userId |-> userId, courseCode |-> raw.course_code,
     activityType |-> raw.activity_type, title |-> raw.title,
     startDate |-> raw.start_date, dueDate |-> raw.due_date,
     link |-> raw.link, activityHash |-> hash]

\* Activity.findOne({ activityHash }): the _id, 0 for null
FindActivityId(hash) ==
    IF \E a \in 1..Len(activities) : activities[a].activityHash = hash
    THEN CHOOSE a \in 1..Len(activities) : activities[a].activityHash = hash
    ELSE 0

\* (mutant) activityHash without the unique index
HashIndexOff(acts, hash) == TRUE

\* the unique index of activityHash
HashIndexFree(acts, hash) ==
    \A a \in 1..Len(acts) : acts[a].activityHash # hash

----------------------------------------------------------------------------
\* scheduleNotifications

\* created: the local array `notifications`, as the _ids of its documents
IdleSched == [pc |-> "idle", aid |-> 0, now |-> 0, created |-> <<>>]

\* (mutant) a start that is not before now is scheduled
StartCandidateOrNow(act, tnow) == act.startDate # NoDate /\ act.startDate >= tnow

\* activity.startDate && new Date(activity.startDate) > now
StartCandidate(act, tnow) == act.startDate # NoDate /\ act.startDate > tnow

\* (mutant) the reminder is scheduled for the due date itself
ReminderDateIsDue(act) == act.dueDate

\* reminderDate.setDate(reminderDate.getDate() - 1)
ReminderDate(act) == act.dueDate - OneDay

\* reminderDate > now
ReminderCandidate(act, tnow) == ReminderDate(act) > tnow

\* the invocation record once `now` is read, at its first await (if any)
BeginSched(aid, act, tnow) ==
    [pc |-> IF StartCandidate(act, tnow) THEN "start"
            ELSE IF ReminderCandidate(act, tnow) THEN "reminder"
            ELSE "return",
     aid |-> aid, now |-> tnow, created |-> <<>>]

\* (mutant) a rejected insert ends the invocation
InsertNotificationOrGiveUp(k, doc) ==
    IF NotifIndexFree(notifications, doc)
    THEN /\ notifications' = Append(notifications, doc)
         /\ delivered' = Append(delivered, 0)
         /\ sch' = [sch EXCEPT ![k].created = Append(@, Len(notifications) + 1),
                               ![k].pc = IF doc.notificationType = "start"
                                            /\ ReminderCandidate(activities[sch[k].aid], sch[k].now)
                                         THEN "reminder" ELSE "return"]
    ELSE /\ UNCHANGED <<notifications, delivered>>
         /\ sch' = [sch EXCEPT ![k].pc = "return"]

\* Notification.create: the document is inserted unless the unique index
\* rejects it (error code 11000, swallowed by the caller)
InsertNotification(k, doc) ==
    IF NotifIndexFree(notifications, doc)
    THEN /\ notifications' = Append(notifications, doc)
         /\ delivered' = Append(delivered, 0)
         /\ sch' = [sch EXCEPT ![k].created = Append(@, Len(notifications) + 1),
                               ![k].pc = IF doc.notificationType = "start"
                                            /\ ReminderCandidate(activities[sch[k].aid], sch[k].now)
                                         THEN "reminder" ELSE "return"]
    ELSE /\ UNCHANGED <<notifications, delivered>>
         /\ sch' = [sch EXCEPT ![k].pc = IF doc.notificationType = "start"
                                            /\ ReminderCandidate(activities[sch[k].aid], sch[k].now)
                                         THEN "reminder" ELSE "return"]

\* the create of the start Notification resolves
SchedStart(k) ==
    /\ sch[k].pc = "start"
    /\ LET act == activities[sch[k].aid]
       IN  InsertNotification(k, NewNotification(sch[k].aid, act.userId, "start",
                                                 act.startDate))
    /\ UNCHANGED <<now, users, activities, isReady, isProcessing, cyc, result,
                   rt, rresult, run, srv>>

\* the create of the reminder Notification resolves
SchedReminder(k) ==
    /\ sch[k].pc = "reminder"
    /\ LET act == activities[sch[k].aid]
       IN  InsertNotification(k, NewNotification(sch[k].aid, act.userId, "reminder",
                                                 ReminderDate(act)))
    /\ UNCHANGED <<now, users, activities, isReady, isProcessing, cyc, result,
                   rt, rresult, run, srv>>

\* scheduler.scheduleNotifications(activity) is invoked for a stored Activity
DirectInvoke(aid) ==
    /\ sch["direct"].pc = "idle"
    /\ sch' = [sch EXCEPT !["direct"] = BeginSched(aid, activities[aid], now)]
    /\ UNCHANGED <<now, storeVars, dispVars, run>>

\* it returns the list of the Notifications it created
DirectReturn ==
    /\ sch["direct"].pc = "return"
    /\ sch' = [sch EXCEPT !["direct"] = IdleSched]
    /\ UNCHANGED <<now, storeVars, dispVars, run>>

----------------------------------------------------------------------------
\* POST /api/scrape.

\* the response of a request that was not answered yet
NoResponse == [status |-> "none"]

\* fault: the stage of the current student that failed, if any (for the
\* properties); waits, cleaned, checks, pauses count the cool-down delays
\* paid, the pages whose cleanup ended, the readiness checks made and the
\* pauses of the drain; resp is the response of the request.
IdleRun ==
    [pc |-> "idle", students |-> <<>>, i |-> 0, user |-> 0, today |-> 0,
     todo |-> <<>>, future |-> <<>>, saved |-> 0, scheduled |-> 0,
     fault |-> "none", results |-> <<>>, waits |-> 0, cleaned |-> 0,
     checks |-> 0, sawReady |-> FALSE, qi |-> 0, totalSent |-> 0,
     totalFailed |-> 0, pauses |-> 0, resp |-> NoResponse]

\* the student of the current iteration
Student(r) == run[r].students[run[r].i]

\* formatStudentResult(username, whatsapp, activities, status, errorMessage),
\* with the whatsappQueue the success path attaches
ResultEntry(i, status, cause, queue) ==
    [student |-> i, status |-> status, cause |-> cause, whatsappQueue |-> queue]

\* The request is parsed, the database connected and the browser launched.
RunStart(r, students) ==
    /\ run[r].pc = "idle"
    /\ run' = [run EXCEPT ![r] = [IdleRun EXCEPT !.pc = "findUser",
                                                 !.students = students, !.i = 1]]
    /\ UNCHANGED <<now, storeVars, dispVars, sch>>

\* the catch block of the student: results.push(formatStudentResult(...,
\* 'error', ...)); the finally block follows
CatchStudent(r, cause) ==
    [run[r] EXCEPT !.results = Append(@, ResultEntry(run[r].i, "error", cause, <<>>)),
                   !.pc = "finally", !.todo = <<>>]

\* the failure branch of login and navigation: results.push(... 'error' ...),
\* then logout and page.close() are awaited
FailureBranch(r, cause) ==
    [run[r] EXCEPT !.results = Append(@, ResultEntry(run[r].i, "error", cause, <<>>)),
                   !.pc = "branchClose"]

\* the for loop goes to the next student, or ends and the status of the
\* WhatsApp server is fetched
NextStudent(rec) ==
    IF rec.i < Len(rec.students)
    THEN [rec EXCEPT !.i = @ + 1, !.pc = "findUser", !.todo = <<>>]
    ELSE [rec EXCEPT !.pc = "status1", !.todo = <<>>]

\* User.findOne({ username }) resolves
FindUser(r) ==
    /\ run[r].pc = "findUser"
    /\ LET u == FindUserId(Student(r).username)
       IN  run' = [run EXCEPT ![r].user = u,
                              ![r].saved = 0, ![r].scheduled = 0,
                              ![r].fault = "none", ![r].future = <<>>,
                              ![r].pc = IF u = 0 \/ users[u].whatsapp # Student(r).whatsapp
                                        THEN "saveUser" ELSE "login"]
    /\ UNCHANGED <<now, storeVars, dispVars, sch>>

\* User.create resolves (a duplicate username is an exception of the
\* student's try block), or user.save() of the changed whatsapp number
SaveUser(r) ==
    /\ run[r].pc = "saveUser"
    /\ IF run[r].user = 0
       THEN IF FindUserId(Student(r).username) = 0
            THEN /\ users' = Append(users, NewUser(Student(r)))
                 /\ run' = [run EXCEPT ![r].user = Len(users) + 1, ![r].pc = "login"]
            ELSE /\ run' = [run EXCEPT ![r] = CatchStudent(r, "store")]
                 /\ UNCHANGED users
       ELSE /\ users' = [users EXCEPT ![run[r].user].whatsapp = Student(r).whatsapp]
            /\ run' = [run EXCEPT ![r].pc = "login"]
    /\ UNCHANGED <<now, activities, notifications, dispVars, sch>>

\* a Store operation of step 1 rejects: the catch block of the student
StoreThrows(r) ==
    /\ run[r].pc \in {"findUser", "saveUser"}
    /\ run' = [run EXCEPT ![r] = CatchStudent(r, "store")]
    /\ UNCHANGED <<now, storeVars, dispVars, sch>>

\* loginToLMS resolves (it catches its errors and returns false)
Login(r, loginSuccess) ==
    /\ run[r].pc = "login"
    /\ run' = [run EXCEPT ![r] = IF loginSuccess THEN [run[r] EXCEPT !.pc = "navigate"]
                                 ELSE FailureBranch(r, "login")]
    /\ UNCHANGED <<now, storeVars, dispVars, sch>>

\* navigateToCalendar resolves (it catches its errors and returns false)
Navigate(r, navSuccess) ==
    /\ run[r].pc = "navigate"
    /\ run' = [run EXCEPT ![r] = IF navSuccess THEN [run[r] EXCEPT !.pc = "scrape"]
                                 ELSE FailureBranch(r, "navigate")]
    /\ UNCHANGED <<now, storeVars, dispVars, sch>>

\* (mutant) the failure branch leaves the page to the finally block
BranchCloseSkipped(r, closed) ==
    /\ run[r].pc = "branchClose"
    /\ run' = [run EXCEPT ![r] =
                  IF run[r].i < Len(run[r].students)
                  THEN [run[r] EXCEPT !.pc = "branchWait"]
                  ELSE NextStudent(run[r])]
    /\ UNCHANGED <<now, storeVars, dispVars, sch>>

\* logout (never throws) and page.close() of the failure branch resolve; the
\* wait before the next student follows.  When page.close() rejects, the
\* catch block of the student runs.
BranchClose(r, closed) ==
    /\ run[r].pc = "branchClose"
    /\ run' = [run EXCEPT ![r] =
                  IF ~closed THEN CatchStudent(r, "cleanup")
                  ELSE IF run[r].i < Len(run[r].students)
                       THEN [run[r] EXCEPT !.cleaned = @ + 1, !.pc = "branchWait"]
                       ELSE NextStudent([run[r] EXCEPT !.cleaned = @ + 1])]
    /\ UNCHANGED <<now, storeVars, dispVars, sch>>

\* (mutant) the failure branch has no `continue`
BranchWaitFallsThrough(r) ==
    /\ run[r].pc = "branchWait"
    /\ run' = [run EXCEPT ![r].waits = @ + 1, ![r].pc = "cooldown"]
    /\ UNCHANGED <<now, storeVars, dispVars, sch>>

\* the wait of the failure branch elapsed; `continue` (the finally block
\* finds the page closed)
BranchWait(r) ==
    /\ run[r].pc = "branchWait"
    /\ run' = [run EXCEPT ![r] = NextStudent([run[r] EXCEPT !.waits = @ + 1])]
    /\ UNCHANGED <<now, storeVars, dispVars, sch>>

\* scrapeActivities (it catches its errors and returns []) and logout
\* resolve; `now` is the start of today
Scrape(r, extracted, acts) ==
    /\ run[r].pc = "scrape"
    /\ run' = [run EXCEPT ![r].pc = "ingest",
                          ![r].todo = IF extracted THEN acts ELSE <<>>,
                          ![r].fault = IF extracted THEN "none" ELSE "extract",
                          ![r].today = StartOfDay(now)]
    /\ UNCHANGED <<now, storeVars, dispVars, sch>>

\* dueDate.setHours(12, 0, 0, 0)
Noon(d) == StartOfDay(d) + (OneDay \div 2)

\* getMonth() and getFullYear() of a date: the calendar month it lies in
MonthOf(d) == IF d < NextMonthAt THEN 0 ELSE 1 + ((d - NextMonthAt) \div (30 * OneDay))

\* sevenDaysLater: setDate(getDate() + 7); setHours(23, 59, 59, 999)
SevenDaysLater(today) == today + 7 * OneDay + (OneDay - 1)

\* (mutant) the filter without the month condition
UpcomingAnyMonth(activity, tnow) ==
    /\ activity.due_date # NoDate
    /\ Noon(activity.due_date) >= StartOfDay(tnow)
    /\ Noon(activity.due_date) <= SevenDaysLater(StartOfDay(tnow))

\* the filter of getUpcomingActivities
Upcoming(activity, tnow) ==
    /\ activity.due_date # NoDate
    /\ MonthOf(Noon(activity.due_date)) = MonthOf(StartOfDay(tnow))
    /\ Noon(activity.due_date) >= StartOfDay(tnow)
    /\ Noon(activity.due_date) <= SevenDaysLater(StartOfDay(tnow))

\* Array.prototype.sort((a, b) => new Date(a.due_date) - new Date(b.due_date)):
\* a stable sort, here by insertion
RECURSIVE SortByDue(_)
SortByDue(acts) ==
    IF acts = <<>> THEN <<>>
    ELSE LET rest == SortByDue(Tail(acts))
             before == SelectSeq(rest, LAMBDA a : a.due_date < Head(acts).due_date)
             after == SelectSeq(rest, LAMBDA a : a.due_date >= Head(acts).due_date)
         IN  before \o <<Head(acts)>> \o after

\* getUpcomingActivities(activities)
getUpcomingActivities(acts, tnow) ==
    SortByDue(SelectSeq(acts, LAMBDA a : Upcoming(a, tnow)))

\* the hash of the activity at the head of the list
HeadHash(r) ==
    generateHash(run[r].user, Head(run[r].todo).course_code,
                 Head(run[r].todo).title, Head(run[r].todo).due_date)

\* (mutant) an activity that is found stored is brought up to date
IngestNextRefreshes(r) ==
    /\ run[r].pc = "ingest"
    /\ IF run[r].todo = <<>>
       THEN /\ run' = [run EXCEPT ![r].results =
                          Append(@, ResultEntry(run[r].i, "success", run[r].fault,
                                                getUpcomingActivities(run[r].future, now))),
                                  ![r].pc = "finally"]
            /\ UNCHANGED activities
       ELSE IF isPast(Head(run[r].todo).due_date, run[r].today)
       THEN /\ run' = [run EXCEPT ![r].todo = Tail(@)]
            /\ UNCHANGED activities
       ELSE IF FindActivityId(HeadHash(r)) # 0
       THEN /\ run' = [run EXCEPT ![r].todo = Tail(@),
                                  ![r].future = Append(@, Head(run[r].todo))]
            /\ activities' = [activities EXCEPT ![FindActivityId(HeadHash(r))] =
                                 NewActivity(run[r].user, Head(run[r].todo), HeadHash(r))]
       ELSE /\ run' = [run EXCEPT ![r].pc = "create",
                                  ![r].future = Append(@, Head(run[r].todo))]
            /\ UNCHANGED activities
    /\ UNCHANGED <<now, users, notifications, dispVars, sch>>

\* (mutant) scheduleNotifications is called for an activity that is found
\* stored, too
IngestNextRepairs(r) ==
    /\ run[r].pc = "ingest"
    /\ IF run[r].todo = <<>>
       THEN /\ run' = [run EXCEPT ![r].results =
                          Append(@, ResultEntry(run[r].i, "success", run[r].fault,
                                                getUpcomingActivities(run[r].future, now))),
                                  ![r].pc = "finally"]
            /\ UNCHANGED sch
       ELSE IF isPast(Head(run[r].todo).due_date, run[r].today)
       THEN /\ run' = [run EXCEPT ![r].todo = Tail(@)]
            /\ UNCHANGED sch
       ELSE IF FindActivityId(HeadHash(r)) # 0
       THEN /\ run' = [run EXCEPT ![r].pc = "scheduling",
                                  ![r].future = Append(@, Head(run[r].todo))]
            /\ sch' = [sch EXCEPT ![r] =
                          BeginSched(FindActivityId(HeadHash(r)),
                                     activities[FindActivityId(HeadHash(r))], now)]
       ELSE /\ run' = [run EXCEPT ![r].pc = "create",
                                  ![r].future = Append(@, Head(run[r].todo))]
            /\ UNCHANGED sch
    /\ UNCHANGED <<now, storeVars, dispVars>>

\* (mutant) only a newly observed activity is kept for the whatsappQueue
IngestNextNewOnly(r) ==
    /\ run[r].pc = "ingest"
    /\ IF run[r].todo = <<>>
       THEN run' = [run EXCEPT ![r].results =
                        Append(@, ResultEntry(run[r].i, "success", run[r].fault,
                                              getUpcomingActivities(run[r].future, now))),
                               ![r].pc = "finally"]
       ELSE IF isPast(Head(run[r].todo).due_date, run[r].today)
       THEN run' = [run EXCEPT ![r].todo = Tail(@)]
       ELSE IF FindActivityId(HeadHash(r)) # 0
       THEN run' = [run EXCEPT ![r].todo = Tail(@)]
       ELSE run' = [run EXCEPT ![r].pc = "create",
                               ![r].future = Append(@, Head(run[r].todo))]
    /\ UNCHANGED <<now, storeVars, dispVars, sch>>

\* The loop over the activities takes the next one: a past activity is
\* skipped, for another one Activity.findOne({ activityHash }) resolves;
\* after the last one the success result is pushed with its whatsappQueue.
IngestNext(r) ==
    /\ run[r].pc = "ingest"
    /\ IF run[r].todo = <<>>
       THEN run' = [run EXCEPT ![r].results =
                        Append(@, ResultEntry(run[r].i, "success", run[r].fault,
                                              getUpcomingActivities(run[r].future, now))),
                               ![r].pc = "finally"]
       ELSE IF isPast(Head(run[r].todo).due_date, run[r].today)
       THEN run' = [run EXCEPT ![r].todo = Tail(@)]
       ELSE IF FindActivityId(HeadHash(r)) # 0
       THEN run' = [run EXCEPT ![r].todo = Tail(@),
                               ![r].future = Append(@, Head(run[r].todo))]
       ELSE run' = [run EXCEPT ![r].pc = "create",
                               ![r].future = Append(@, Head(run[r].todo))]
    /\ UNCHANGED <<now, storeVars, dispVars, sch>>

\* Activity.create resolves: the document is inserted and
\* scheduleNotifications is called, or the unique index rejects it and the
\* catch block of the activity logs the error.
IngestCreate(r) ==
    /\ run[r].pc = "create"
    /\ IF HashIndexFree(activities, HeadHash(r))
       THEN /\ activities' = Append(activities,
                                NewActivity(run[r].user, Head(run[r].todo), HeadHash(r)))
            /\ run' = [run EXCEPT ![r].saved = @ + 1, ![r].pc = "scheduling"]
            /\ sch' = [sch EXCEPT ![r] =
                          BeginSched(Len(activities) + 1,
                                     NewActivity(run[r].user, Head(run[r].todo), HeadHash(r)),
                                     now)]
       ELSE /\ run' = [run EXCEPT ![r].todo = Tail(@), ![r].pc = "ingest"]
            /\ UNCHANGED <<activities, sch>>
    /\ UNCHANGED <<now, users, notifications, dispVars>>

\* scheduleNotifications returns: scheduledCount += notifications.length
ScheduleReturn(r) ==
    /\ run[r].pc = "scheduling"
    /\ sch[r].pc = "return"
    /\ run' = [run EXCEPT ![r].scheduled = @ + Len(sch[r].created),
                          ![r].todo = Tail(@), ![r].pc = "ingest"]
    /\ sch' = [sch EXCEPT ![r] = IdleSched]
    /\ UNCHANGED <<now, storeVars, dispVars>>

\* (mutant) no cleanup of the page
FinallyLeavesPage(r) ==
    /\ run[r].pc = "finally"
    /\ run' = [run EXCEPT ![r].pc = IF run[r].i < Len(run[r].students)
                                    THEN "cooldown" ELSE "status1"]
    /\ UNCHANGED <<now, storeVars, dispVars, sch>>

\* the finally block of the student: the page is closed (errors are only
\* logged); then, unless this was the last student, the wait starts
Finally(r) ==
    /\ run[r].pc = "finally"
    /\ run' = [run EXCEPT ![r].cleaned = @ + 1,
                          ![r].pc = IF run[r].i < Len(run[r].students)
                                    THEN "cooldown" ELSE "status1"]
    /\ UNCHANGED <<now, storeVars, dispVars, sch>>

\* the wait before the next student elapsed
Cooldown(r) ==
    /\ run[r].pc = "cooldown"
    /\ run' = [run EXCEPT ![r] = NextStudent([run[r] EXCEPT !.waits = @ + 1])]
    /\ UNCHANGED <<now, storeVars, dispVars, sch>>

\* the items of all whatsappQueues, in the order the drain visits them
RECURSIVE QueueOf(_)
QueueOf(results) ==
    IF results = <<>> THEN <<>>
    ELSE [k \in 1..Len(Head(results).whatsappQueue) |->
             [student |-> Head(results).student,
              activity |-> Head(results).whatsappQueue[k]]] \o QueueOf(Tail(results))

\* the response after the drain and after the catch of the status check:
\* whatsapp: { status: 'ready', queued, sent, failed }
FinalResponse(rec, queued) ==
    [status |-> "ready", queued |-> queued, sent |-> rec.totalSent,
     failed |-> rec.totalFailed, results |-> rec.results]

\* the early return: whatsapp: { status: 'not_ready', queued, sent: 0, failed: 0 }
NotReadyResponse(rec) ==
    [status |-> "not_ready", queued |-> 0, sent |-> 0, failed |-> 0,
     results |-> rec.results]

\* the response is sent (the browser is closed in the outer finally block)
Answer(rec, resp) == [rec EXCEPT !.pc = "idle", !.resp = resp]

\* (mutant) a channel that is still not ready is checked again
StillNotReadyWaits(r) == [run[r] EXCEPT !.checks = @ + 1, !.pc = "statusWait"]

\* the second check found the channel not ready
StillNotReady(r) == Answer([run[r] EXCEPT !.checks = @ + 1], NotReadyResponse(run[r]))

\* fetch('http://localhost:3001/status') resolves or rejects.  The server
\* answers with whatsappClient.getStatus() of its process.
CheckStatus(r, reachable) ==
    /\ run[r].pc \in {"status1", "status2"}
    /\ run' = [run EXCEPT ![r] =
                  IF ~reachable THEN Answer([run[r] EXCEPT !.checks = @ + 1],
                                            FinalResponse(run[r], 0))
                  ELSE IF isReady["server"]
                  THEN IF QueueOf(run[r].results) = <<>>
                       THEN Answer([run[r] EXCEPT !.checks = @ + 1, !.sawReady = TRUE],
                                   FinalResponse(run[r], 0))
                       ELSE [run[r] EXCEPT !.checks = @ + 1, !.sawReady = TRUE,
                                           !.pc = "drainSend", !.qi = 1]
                  ELSE IF run[r].pc = "status1"
                  THEN [run[r] EXCEPT !.checks = @ + 1, !.pc = "statusWait"]
                  ELSE StillNotReady(r)]
    /\ UNCHANGED <<now, storeVars, dispVars, sch>>

\* await wait(5000) elapsed
StatusWait(r) ==
    /\ run[r].pc = "statusWait"
    /\ run' = [run EXCEPT ![r].pc = "status2"]
    /\ UNCHANGED <<now, storeVars, dispVars, sch>>

\* the drain goes to the next queue item, or ends with the response
NextItem(rec) ==
    IF rec.qi < Len(QueueOf(rec.results))
    THEN [rec EXCEPT !.qi = @ + 1, !.pc = "drainSend"]
    ELSE Answer(rec, FinalResponse(rec, Len(QueueOf(rec.results))))

\* fetch('http://localhost:3001/send') for the current item: the server
\* delivered it (200), rejected it (503 not ready, 500 send error), or the
\* fetch itself threw; or the server rejected it and waResponse.json(),
\* awaited after totalFailed++, threw as well.  The catch block counts a
\* failure and has no wait.
DrainSend(r, outcome) ==
    /\ run[r].pc = "drainSend"
    /\ outcome = "sent" => isReady["server"]
    /\ run' = [run EXCEPT ![r] =
                  IF outcome = "sent"
                  THEN [run[r] EXCEPT !.totalSent = @ + 1, !.pc = "drainPause"]
                  ELSE IF outcome = "rejected"
                  THEN [run[r] EXCEPT !.totalFailed = @ + 1, !.pc = "drainPause"]
                  ELSE IF outcome = "unreadable"
                  THEN NextItem([run[r] EXCEPT !.totalFailed = @ + 2])
                  ELSE NextItem([run[r] EXCEPT !.totalFailed = @ + 1])]
    /\ UNCHANGED <<now, storeVars, dispVars, sch>>

\* await wait(1500) elapsed
DrainPause(r) ==
    /\ run[r].pc = "drainPause"
    /\ run' = [run EXCEPT ![r] = NextItem([run[r] EXCEPT !.pauses = @ + 1])]
    /\ UNCHANGED <<now, storeVars, dispVars, sch>>

\* The drain, which does not touch the Store, ends and the response is sent.
Respond(r) ==
    /\ run[r].pc = "status1"
    /\ run' = [run EXCEPT ![r] = IdleRun]
    /\ UNCHANGED <<now, storeVars, dispVars, sch>>

\* Notification.create rejects with an error other than 11000:
\* scheduleNotifications rethrows it and the catch block of the activity
\* logs it; the loop goes on with the next activity.
ScheduleThrows(r) ==
    /\ run[r].pc = "scheduling"
    /\ sch[r].pc \in {"start", "reminder"}
    /\ run' = [run EXCEPT ![r].todo = Tail(@), ![r].pc = "ingest"]
    /\ sch' = [sch EXCEPT ![r] = IdleSched]
    /\ UNCHANGED <<now, storeVars, dispVars>>

\* the response of a request whose process died
Crashed == [status |-> "crashed"]

\* the Next.js process dies while a request is being served: what the
\* request held in memory is lost, the Store keeps what was written
ProcessCrash(r) ==
    /\ run[r].pc # "idle"
    /\ run' = [run EXCEPT ![r] = [IdleRun EXCEPT !.resp = Crashed]]
    /\ sch' = [sch EXCEPT ![r] = IdleSched]
    /\ UNCHANGED <<now, storeVars, dispVars>>

----------------------------------------------------------------------------
\* The environment.

\* the 'ready' event of the WhatsApp client (only server.js initializes it)
ClientReady ==
    /\ ~isReady["server"]
    /\ isReady' = [isReady EXCEPT !["server"] = TRUE]
    /\ UNCHANGED <<srv, ingVars, now, storeVars, delivered, isProcessing, cyc, result, rt, rresult>>

\* the 'disconnected' event of the WhatsApp client
ClientDisconnected ==
    /\ isReady["server"]
    /\ isReady' = [isReady EXCEPT !["server"] = FALSE]
    /\ UNCHANGED <<srv, ingVars, now, storeVars, delivered, isProcessing, cyc, result, rt, rresult>>

\* an operator switches a User off in the Store (isActive: false)
DeactivateUser(u) ==
    /\ users[u].isActive
    /\ users' = [users EXCEPT ![u].isActive = FALSE]
    /\ UNCHANGED <<srv, ingVars, now, activities, notifications, dispVars>>

\* the state of server.js before startBackgroundServices reached its wait loop
ServerBoot == [pc |-> "boot", processInterval |-> FALSE]

\* the background server after startAutoProcessing
ServerUp == [pc |-> "up", processInterval |-> TRUE]

\* startBackgroundServices leaves its wait loop with the client ready:
\* scheduler.startAutoProcessing() calls processPendingNotifications at once
\* and sets the 5-minute interval.
StartupReady ==
    /\ srv.pc = "boot"
    /\ isReady["server"]
    /\ srv' = ServerUp
    /\ Enter("timer1")
    /\ UNCHANGED <<ingVars, now, storeVars, delivered, isReady, rt, rresult>>

\* startBackgroundServices leaves its wait loop with the client not ready
\* (the QR code is shown, or 60 seconds went by): a warning is logged and
\* startAutoProcessing is not called.
StartupNotReady ==
    /\ srv.pc = "boot"
    /\ ~isReady["server"]
    /\ srv' = [srv EXCEPT !.pc = "up"]
    /\ UNCHANGED <<ingVars, now, storeVars, delivered, isReady, isProcessing, cyc,
                   result, rt, rresult>>

\* the setInterval callback of startAutoProcessing fires
TimerFire(c) ==
    /\ srv.processInterval
    /\ Invoke(c)

\* the server slots of the dispatcher
ServerSlots == {c \in CycleSlots : ProcOf(c) = "server"}

\* A shutdown signal arrives: scheduler.stopAutoProcessing() clears the
\* interval, then whatsappClient.disconnect() is awaited.
ShutdownSignal ==
    /\ srv.pc = "up"
    /\ srv' = [pc |-> "destroying", processInterval |-> FALSE]
    /\ UNCHANGED <<ingVars, now, storeVars, delivered, isReady, isProcessing, cyc,
                   result, rt, rresult>>

\* client.destroy() resolved: isReady = false; db.disconnect() is awaited
ClientDestroyed ==
    /\ srv.pc = "destroying"
    /\ srv' = [srv EXCEPT !.pc = "closing"]
    /\ isReady' = [isReady EXCEPT !["server"] = FALSE]
    /\ UNCHANGED <<ingVars, now, storeVars, delivered, isProcessing, cyc, result,
                   rt, rresult>>

\* mongoose.disconnect() resolved and process.exit(0) ends the process: a
\* cycle that is still in flight ends where it is
ServerExit ==
    /\ srv.pc = "closing"
    /\ srv' = [srv EXCEPT !.pc = "exited"]
    /\ cyc' = [c \in CycleSlots |->
                  IF c \in ServerSlots /\ cyc[c].pc # "idle"
                  THEN [cyc[c] EXCEPT !.pc = "killed"] ELSE cyc[c]]
    /\ UNCHANGED <<ingVars, now, storeVars, delivered, isReady, isProcessing, result,
                   rt, rresult>>

\* time passes
Tick ==
    /\ now < MaxTime
    /\ now' = now + 1
    /\ UNCHANGED <<ingVars, storeVars, dispVars>>

----------------------------------------------------------------------------
vars == <<now, users, activities, notifications, delivered, isReady,
          isProcessing, cyc, result, rt, rresult, run, sch, srv>>

InitDispatcher ==
    /\ run = [r \in RunSlots |-> IdleRun]
    /\ sch = [k \in SchedCallers |-> IdleSched]
    /\ isReady = [p \in Procs |-> FALSE]
    /\ isProcessing = [p \in Procs |-> FALSE]
    /\ cyc = [c \in CycleSlots |-> IdleCycle]
    /\ result = NoResult
    /\ rt = [r \in RetrySlots |-> IdleRetry]
    /\ rresult = -1
    /\ srv = ServerUp

\* The Store after one POST /api/scrape at instant 0 for student s1 whose
\* calendar holds the activity rAsg (a state SpecIngest reaches).
StoreAfterFirstRun ==
    /\ now = 0
    /\ users = << NewUser(s1) >>
    /\ activities = << NewActivity(1, rAsg,
                          generateHash(1, rAsg.course_code, rAsg.title, rAsg.due_date)) >>
    /\ notifications = << NewNotification(1, 1, "start", rAsg.start_date),
                          NewNotification(1, 1, "reminder", rAsg.due_date - OneDay) >>
    /\ delivered = <<0, 0>>

InitDispatch ==
    /\ StoreAfterFirstRun
    /\ InitDispatcher

\* The Store is empty and no request was made.
InitIngest ==
    /\ now = 0
    /\ users = <<>>
    /\ activities = <<>>
    /\ notifications = <<>>
    /\ delivered = <<>>
    /\ InitDispatcher

\* two concurrent POST /api/scrape requests
NextIngest ==
    \/ \E r \in RunSlots, sts \in SingleStudentLists : RunStart(r, sts)
    \/ \E r \in RunSlots : FindUser(r)
    \/ \E r \in RunSlots : SaveUser(r)
    \/ \E r \in RunSlots, ok \in BOOLEAN : Login(r, ok)
    \/ \E r \in RunSlots, ok \in BOOLEAN : Navigate(r, ok)
    \/ \E r \in RunSlots, acts \in ScrapeResults : Scrape(r, TRUE, acts)
    \/ \E r \in RunSlots : BranchClose(r, TRUE)
    \/ \E r \in RunSlots : Finally(r)
    \/ \E r \in RunSlots : IngestNext(r)
    \/ \E r \in RunSlots : IngestCreate(r)
    \/ \E k \in RunSlots : SchedStart(k)
    \/ \E k \in RunSlots : SchedReminder(k)
    \/ \E r \in RunSlots : ScheduleReturn(r)
    \/ \E r \in RunSlots : Respond(r)
    \/ Tick

SpecIngest == InitIngest /\ [][NextIngest]_vars

\* A calendar of DispatchLimit + BatchExtra + 1 activities: the last one is
\* due two days after the others, the second one belongs to student s2.
BatchSize == DispatchLimit + BatchExtra + 1

BatchRaw(k) ==
    [course_code |-> <<"C">>, activity_type |-> "Quiz", title |-> <<"t", ToString(k)>>,
     start_date |-> NoDate, due_date |-> IF k = BatchSize THEN 3 + 2 * OneDay ELSE 3,
     link |-> "l"]

BatchUser(k) == IF k = 2 THEN 2 ELSE 1

\* The Store at instant 1, after the requests of instant 0 ingested the
\* calendar (every activity got its reminder) and student s2 was switched
\* off; the WhatsApp client of the background server is ready.
InitBatch ==
    /\ now = 1
    /\ users = << NewUser(s1), [NewUser(s2) EXCEPT !.isActive = FALSE] >>
    /\ activities = [k \in 1..BatchSize |->
                        NewActivity(BatchUser(k), BatchRaw(k),
                                    generateHash(BatchUser(k), BatchRaw(k).course_code,
                                                 BatchRaw(k).title, BatchRaw(k).due_date))]
    /\ notifications = [k \in 1..BatchSize |->
                           NewNotification(k, BatchUser(k), "reminder",
                                           ReminderDate(activities[k]))]
    /\ delivered = [k \in 1..BatchSize |-> 0]
    /\ run = [r \in RunSlots |-> IdleRun]
    /\ sch = [k \in SchedCallers |-> IdleSched]
    /\ isReady = [p \in Procs |-> p = "server"]
    /\ isProcessing = [p \in Procs |-> FALSE]
    /\ cyc = [c \in CycleSlots |-> IdleCycle]
    /\ result = NoResult
    /\ rt = [r \in RetrySlots |-> IdleRetry]
    /\ rresult = -1
    /\ srv = ServerUp

\* the periodic cycles of the background server on a channel that stays
\* ready and delivers every message
NextBatch ==
    \/ Invoke("timer1")
    \/ Find("timer1")
    \/ LoopHead("timer1")
    \/ SendOk("timer1")
    \/ Pause("timer1")
    \/ Tick

SpecBatch == InitBatch /\ [][NextBatch]_vars

\* a request, and scheduleNotifications invoked again for stored Activities
NextSched ==
    \/ \E sts \in SingleStudentLists : RunStart("a", sts)
    \/ FindUser("a")
    \/ SaveUser("a")
    \/ \E ok \in BOOLEAN : Login("a", ok)
    \/ \E ok \in BOOLEAN : Navigate("a", ok)
    \/ \E acts \in ScrapeResults : Scrape("a", TRUE, acts)
    \/ BranchClose("a", TRUE)
    \/ Finally("a")
    \/ IngestNext("a")
    \/ IngestCreate("a")
    \/ SchedStart("a")
    \/ SchedReminder("a")
    \/ ScheduleReturn("a")
    \/ Respond("a")
    \/ Tick
    \/ \E aid \in 1..Len(activities) : DirectInvoke(aid)
    \/ SchedStart("direct")
    \/ SchedReminder("direct")
    \/ DirectReturn

SpecSched == InitIngest /\ [][NextSched]_vars

\* the outcomes of a fetch of /send
SendOutcomes == {"sent", "rejected", "error", "unreadable"}

\* the first request arrives
FirstRequest(students) ==
    /\ run["a"].resp = NoResponse
    /\ RunStart("a", students)

\* one POST /api/scrape request from its body to its response, next to the
\* WhatsApp client of the background server
NextRun ==
    \/ \E sts \in RunStudentLists : FirstRequest(sts)
    \/ FindUser("a")
    \/ SaveUser("a")
    \/ StoreThrows("a")
    \/ \E ok \in BOOLEAN : Login("a", ok)
    \/ \E ok \in BOOLEAN : Navigate("a", ok)
    \/ \E ok \in BOOLEAN : BranchClose("a", ok)
    \/ BranchWait("a")
    \/ \E ok \in BOOLEAN, acts \in RunScrapeResults : Scrape("a", ok, acts)
    \/ IngestNext("a")
    \/ IngestCreate("a")
    \/ SchedStart("a")
    \/ SchedReminder("a")
    \/ ScheduleReturn("a")
    \/ Finally("a")
    \/ Cooldown("a")
    \/ \E reachable \in BOOLEAN : CheckStatus("a", reachable)
    \/ StatusWait("a")
    \/ \E outcome \in SendOutcomes : DrainSend("a", outcome)
    \/ DrainPause("a")
    \/ ClientReady
    \/ ClientDisconnected
    \/ Tick

SpecRun == InitIngest /\ [][NextRun]_vars

\* the first request arrives, or a request is made again after the process
\* died
RequestAgain(students) ==
    /\ run["a"].resp \in {NoResponse, Crashed}
    /\ RunStart("a", students)

\* A request that reads the calendar of the same student twice, the LMS
\* having changed in between; scheduleNotifications may throw and the
\* process may die and be started again.
NextRepeat ==
    \/ \E sts \in RepeatStudentLists : RequestAgain(sts)
    \/ FindUser("a")
    \/ SaveUser("a")
    \/ Login("a", TRUE)
    \/ Navigate("a", TRUE)
    \/ \E acts \in RepeatScrapeResults : Scrape("a", TRUE, acts)
    \/ IngestNext("a")
    \/ IngestCreate("a")
    \/ SchedStart("a")
    \/ SchedReminder("a")
    \/ ScheduleReturn("a")
    \/ ScheduleThrows("a")
    \/ ProcessCrash("a")
    \/ Finally("a")
    \/ Cooldown("a")
    \/ CheckStatus("a", TRUE)
    \/ StatusWait("a")
    \/ ClientReady
    \/ Tick

SpecRepeat == InitIngest /\ [][NextRepeat]_vars

\* The background server runs with the client ready and its interval set.
InitShutdown ==
    /\ StoreAfterFirstRun
    /\ run = [r \in RunSlots |-> IdleRun]
    /\ sch = [k \in SchedCallers |-> IdleSched]
    /\ isReady = [p \in Procs |-> p = "server"]
    /\ isProcessing = [p \in Procs |-> FALSE]
    /\ cyc = [c \in CycleSlots |-> IdleCycle]
    /\ result = NoResult
    /\ rt = [r \in RetrySlots |-> IdleRetry]
    /\ rresult = -1
    /\ srv = ServerUp

\* the background server from its periodic cycles to its exit on a signal
NextShutdown ==
    \/ \E c \in ServerSlots : TimerFire(c)
    \/ \E c \in ServerSlots : Find(c)
    \/ \E c \in ServerSlots : LoopHead(c)
    \/ \E c \in ServerSlots : SendOk(c)
    \/ \E c \in ServerSlots : SendFail(c)
    \/ \E c \in ServerSlots : Pause(c)
    \/ ShutdownSignal
    \/ ClientDestroyed
    \/ ServerExit
    \/ Tick

SpecShutdown == InitShutdown /\ [][NextShutdown]_vars

\* dispatch cycles of both processes, no retry sweep
NextGuard ==
    \/ \E c \in CycleSlots : Invoke(c)
    \/ \E c \in CycleSlots : Find(c)
    \/ \E c \in CycleSlots : LoopHead(c)
    \/ \E c \in CycleSlots : SendOk(c)
    \/ \E c \in CycleSlots : SendFail(c)
    \/ \E c \in CycleSlots : Pause(c)
    \/ ClientReady
    \/ ClientDisconnected
    \/ \E u \in 1..Len(users) : DeactivateUser(u)
    \/ Tick

SpecGuard == InitDispatch /\ [][NextGuard]_vars

\* dispatch cycles of both processes on a Store that may reject an operation
NextThrow ==
    \/ \E c \in CycleSlots : Invoke(c)
    \/ \E c \in CycleSlots : Find(c)
    \/ \E c \in CycleSlots : FindThrows(c)
    \/ \E c \in CycleSlots : LoopHead(c)
    \/ \E c \in CycleSlots : SendOk(c)
    \/ \E c \in CycleSlots : SendFail(c)
    \/ \E c \in CycleSlots : RecordThrows(c)
    \/ \E c \in CycleSlots : Pause(c)
    \/ ClientReady
    \/ ClientDisconnected
    \/ \E u \in 1..Len(users) : DeactivateUser(u)
    \/ Tick

SpecThrow == InitDispatch /\ [][NextThrow]_vars

\* the dispatch cycles of the background server and the retry sweeps
NextRetry ==
    \/ \E c \in {"timer1"} : Invoke(c)
    \/ \E c \in {"timer1"} : Find(c)
    \/ \E c \in {"timer1"} : LoopHead(c)
    \/ \E c \in {"timer1"} : SendOk(c)
    \/ \E c \in {"timer1"} : SendFail(c)
    \/ \E c \in {"timer1"} : Pause(c)
    \/ \E r \in RetrySlots : RetryFind(r)
    \/ \E r \in RetrySlots : RetrySave(r)
    \/ ClientReady
    \/ ClientDisconnected
    \/ Tick

SpecRetry == InitDispatch /\ [][NextRetry]_vars

\* The background server is started after the first POST /api/scrape filled
\* the Store; the WhatsApp client gets ready before or after the startup
\* check and then stays ready.
InitBackground ==
    /\ StoreAfterFirstRun
    /\ run = [r \in RunSlots |-> IdleRun]
    /\ sch = [k \in SchedCallers |-> IdleSched]
    /\ isReady = [p \in Procs |-> FALSE]
    /\ isProcessing = [p \in Procs |-> FALSE]
    /\ cyc = [c \in CycleSlots |-> IdleCycle]
    /\ result = NoResult
    /\ rt = [r \in RetrySlots |-> IdleRetry]
    /\ rresult = -1
    /\ srv = ServerBoot

TimerSlots == {"timer1", "timer2"}

\* the background server alone: nothing but its interval invokes the
\* dispatcher
NextBackground ==
    \/ StartupReady
    \/ StartupNotReady
    \/ \E c \in TimerSlots : TimerFire(c)
    \/ \E c \in TimerSlots : Find(c)
    \/ \E c \in TimerSlots : LoopHead(c)
    \/ \E c \in TimerSlots : SendOk(c)
    \/ \E c \in TimerSlots : SendFail(c)
    \/ \E c \in TimerSlots : Pause(c)
    \/ ClientReady
    \/ Tick

\* The event loop runs every callback that is due: the startup code goes on,
\* the client gets ready, the clock advances, a set interval fires, a
\* query, a send and a pause end.
FairBackground ==
    /\ WF_vars(StartupReady)
    /\ WF_vars(StartupNotReady)
    /\ WF_vars(ClientReady)
    /\ WF_vars(Tick)
    /\ \A c \in TimerSlots :
          /\ WF_vars(TimerFire(c))
          /\ WF_vars(Find(c))
          /\ WF_vars(LoopHead(c))
          /\ WF_vars(SendOk(c) \/ SendFail(c))
          /\ WF_vars(Pause(c))

SpecBackground == InitBackground /\ [][NextBackground]_vars /\ FairBackground

----------------------------------------------------------------------------
\* Properties of ingestion and scheduling.

ActivityIds == 1..Len(activities)

\* the content identity of a stored Activity
Identity(act) == <<act.userId, act.courseCode, act.title, act.dueDate>>

\* the stored Activities with the identity of the activity request r is
\* ingesting, in the Store `acts`
SameIdentity(acts, r) ==
    { a \in 1..Len(acts) :
        Identity(acts[a]) = <<run[r].user, Head(run[r].todo).course_code,
                              Head(run[r].todo).title, Head(run[r].todo).due_date>> }

\* C1: no two stored Activities have the same content identity; when a
\* request is done with a non-past activity (it found it stored, it inserted
\* it, or its insert lost the race) exactly one Activity with that identity
\* is stored; and the request whose insert lost the race goes on with its
\* next activity without an error result.
C1_OneActivityPerIdentity ==
    /\ [](\A a1, a2 \in ActivityIds :
            Identity(activities[a1]) = Identity(activities[a2]) => a1 = a2)
    /\ [][\A r \in RunSlots :
            /\ (run[r].pc = "create" /\ run'[r].pc # "create") =>
                  /\ Cardinality(SameIdentity(activities', r)) = 1
                  /\ run'[r].pc \in {"scheduling", "ingest"}
                  /\ run'[r].results = run[r].results
                  /\ run'[r].pc = "ingest" =>
                        (activities' = activities /\ run'[r].todo = Tail(run[r].todo))
            /\ (run[r].pc = "ingest" /\ run[r].todo # <<>>
                /\ ~isPast(Head(run[r].todo).due_date, run[r].today)
                /\ run'[r].pc = "ingest" /\ run'[r].todo # run[r].todo) =>
                  Cardinality(SameIdentity(activities', r)) = 1
       ]_vars

\* a request is about to insert an Activity that the other request inserted
\* after this request looked it up
C1_Witness ==
    \E r \in RunSlots :
        /\ run[r].pc = "create"
        /\ SameIdentity(activities, r) # {}

\* C2: at most one Notification per (Activity, notificationType).
C2_OneNotificationPerType ==
    \A n1, n2 \in NotifIds :
        (/\ notifications[n1].activityId = notifications[n2].activityId
         /\ notifications[n1].notificationType = notifications[n2].notificationType)
        => n1 = n2

\* an invocation of scheduleNotifications is about to insert a reminder for
\* an Activity that already has one
C2_Witness ==
    \E k \in SchedCallers :
        /\ sch[k].pc = "reminder"
        /\ \E n \in NotifIds :
              /\ notifications[n].activityId = sch[k].aid
              /\ notifications[n].notificationType = "reminder"

----------------------------------------------------------------------------
\* Properties of the dispatcher.

\* slot c holds the result of its query and has not returned yet
HoldsSelection(c) ==
    /\ cyc[c].pc \in {"loop", "sending", "pause"}
    /\ cyc[c].sel # <<>>

\* C3: the dispatch cycles of the on-demand trigger and of the periodic
\* trigger are serialized: never do two cycles both hold a selection of
\* pending Notifications, and no Notification is delivered twice.
C3_Serialized ==
    /\ \A c1, c2 \in CycleSlots :
          c1 # c2 => ~(HoldsSelection(c1) /\ HoldsSelection(c2))
    /\ \A n \in NotifIds : delivered[n] <= 1

\* C4: an invocation of processPendingNotifications made while a cycle of the
\* same dispatcher is running issues no query, sends nothing, changes no
\* Notification and returns {processed: 0, sent: 0, failed: 0}.
C4_GuardSkips ==
    [][\A c \in CycleSlots :
          (Invoke(c) /\ isProcessing[ProcOf(c)]) =>
              /\ UNCHANGED <<storeVars, delivered, cyc, isProcessing>>
              /\ result'.slot = c
              /\ result'.processed = 0 /\ result'.sent = 0 /\ result'.failed = 0
      ]_vars

\* an invocation was skipped while another invocation of its process is in
\* the middle of a cycle with a non-empty selection
C4_Witness ==
    /\ result.kind = "skipped"
    /\ \E c \in CycleSlots :
          /\ c # result.slot
          /\ ProcOf(c) = ProcOf(result.slot)
          /\ HoldsSelection(c)

\* C5: sent is terminal: a Notification whose status is sent keeps that
\* status and is not delivered again.
C5_SentTerminal ==
    [][\A n \in NotifIds :
          notifications[n].status = "sent" =>
              /\ notifications'[n].status = "sent"
              /\ delivered'[n] = delivered[n]
      ]_vars

\* C6: a cycle that finds the channel not ready at its first readiness check
\* returns {processed: 0, sent: 0, failed: 0}.
C6_NotReadyZeroCounts ==
    (result.kind = "aborted" /\ result.checks = 1) =>
        (result.processed = 0 /\ result.sent = 0 /\ result.failed = 0)

C9_SelectsPendingDue ==
    \A c \in CycleSlots :
        /\ Len(cyc[c].sel) <= DispatchLimit
        /\ \A k \in 1..Len(cyc[c].sel) :
              /\ cyc[c].sel[k].status = "pending"
              /\ cyc[c].sel[k].scheduledFor <= cyc[c].now
        /\ cyc[c].pc = "sending" =>
              /\ notifications[cyc[c].sel[cyc[c].idx].id].status = "pending"
              /\ notifications[cyc[c].sel[cyc[c].idx].id].scheduledFor <= now

\* a cycle selected exactly 50 Notifications while more were pending and due,
\* one pending Notification was scheduled in the future, and none of them
\* is in the selection
C9_Witness ==
    \E c \in CycleSlots :
        /\ cyc[c].pc = "loop" /\ cyc[c].idx = 1
        /\ Len(cyc[c].sel) = DispatchLimit
        /\ Len(PendingDue(cyc[c].now)) > DispatchLimit
        /\ \E n \in NotifIds :
              /\ notifications[n].status = "pending"
              /\ notifications[n].scheduledFor > cyc[c].now
              /\ \A k \in 1..Len(cyc[c].sel) : cyc[c].sel[k].id # n

\* C10: no Notification is twice in a selection, and a send attempt of a
\* cycle ends in exactly one of two ways: delivered, status sent, sentAt set,
\* attempts unchanged; or not delivered, status failed, the error recorded,
\* attempts one more.  The loop then moves on to the next selected
\* Notification, and a cycle that is not cut short by the readiness check
\* has handled every selected Notification when it returns.
C10_DeliveryOutcome ==
    [][\A c \in CycleSlots :
          LET d == cyc[c].sel[cyc[c].idx]
              n == d.id
          IN  /\ \A k1, k2 \in 1..Len(cyc[c].sel) :
                    cyc[c].sel[k1].id = cyc[c].sel[k2].id => k1 = k2
              /\ (cyc[c].pc = "sending" /\ cyc'[c].pc # "sending") =>
                    \/ /\ cyc'[c].pc = "pause" /\ cyc'[c].idx = cyc[c].idx
                       /\ delivered'[n] = delivered[n] + 1
                       /\ notifications'[n].status = "sent"
                       /\ notifications'[n].sentAt = now
                       /\ notifications'[n].attempts = notifications[n].attempts
                       /\ cyc'[c].sent = cyc[c].sent + 1
                       /\ cyc'[c].failed = cyc[c].failed
                    \/ /\ cyc'[c].pc = "loop" /\ cyc'[c].idx = cyc[c].idx + 1
                       /\ delivered'[n] = delivered[n]
                       /\ notifications'[n].status = "failed"
                       /\ notifications'[n].error # NoError
                       /\ notifications'[n].attempts = notifications[n].attempts + 1
                       /\ cyc'[c].failed = cyc[c].failed + 1
                       /\ cyc'[c].sent = cyc[c].sent
              /\ (cyc[c].pc = "pause" /\ cyc'[c].pc # "pause") =>
                    (cyc'[c].pc = "loop" /\ cyc'[c].idx = cyc[c].idx + 1)
              /\ (cyc[c].pc = "loop" /\ cyc'[c].pc = "sending") =>
                    (cyc'[c].idx = cyc[c].idx /\ d.active)
              /\ (cyc[c].pc = "loop" /\ cyc'[c].pc = "idle"
                  /\ result'.kind = "completed") =>
                    (/\ cyc[c].idx = Len(cyc[c].sel) + 1
                     /\ result'.sent + result'.failed = Len(cyc[c].sel))
      ]_vars

\* a Notification that failed before (attempts 1) was delivered, and another
\* one failed for the second time
C10_Witness ==
    /\ \E n \in NotifIds :
          /\ notifications[n].status = "sent"
          /\ notifications[n].attempts = 1
          /\ delivered[n] = 1
    /\ \E n \in NotifIds :
          /\ notifications[n].status = "failed"
          /\ notifications[n].attempts = 2

----------------------------------------------------------------------------
\* Properties of the dispatcher: inactive Users and pacing.

\* C11: when the loop reaches a selected Notification whose User was loaded
\* as inactive (and the channel is ready), the step records status failed
\* with the error 'User is inactive', delivers nothing, and moves on to the
\* next selected Notification without entering the send.
C11_InactiveFailsUnsent ==
    [][\A c \in CycleSlots :
          (/\ cyc[c].pc = "loop" /\ cyc[c].idx <= Len(cyc[c].sel)
           /\ cyc'[c] # cyc[c]
           /\ isReady[ProcOf(c)]
           /\ ~cyc[c].sel[cyc[c].idx].active) =>
              LET n == cyc[c].sel[cyc[c].idx].id
              IN  /\ notifications'[n].status = "failed"
                  /\ notifications'[n].error = "User is inactive"
                  /\ delivered' = delivered
                  /\ cyc'[c].pc = "loop"
                  /\ cyc'[c].idx = cyc[c].idx + 1
                  /\ cyc'[c].failed = cyc[c].failed + 1
      ]_vars

\* a Notification of a switched-off User was failed as inactive, undelivered
C11_Witness ==
    \E n \in NotifIds :
        /\ notifications[n].status = "failed"
        /\ notifications[n].error = "User is inactive"
        /\ ~users[notifications[n].userId].isActive
        /\ delivered[n] = 0

\* C12: every delivery attempt of a cycle, delivered or not, is followed by
\* the inter-message pause before the loop goes on.
C12_PauseAfterEveryAttempt ==
    [][\A c \in CycleSlots :
          (cyc[c].pc = "sending" /\ cyc'[c].pc # "sending") => cyc'[c].pc = "pause"
      ]_vars

----------------------------------------------------------------------------
\* Properties of the retry sweep.

\* C13: the query of a retry sweep selects, once each, exactly the
\* Notifications that are failed with fewer than 3 attempts and scheduled at
\* or before now; each save of the sweep sets the status of the next selected
\* Notification to pending and changes nothing else, of that Notification or
\* of any other; after the last save the sweep returns the number of selected
\* Notifications.
C13_RetrySweepResets ==
    [][\A r \in RetrySlots :
          /\ (rt[r].pc = "idle" /\ rt'[r].pc = "saving") =>
                /\ { rt'[r].sel[k] : k \in 1..Len(rt'[r].sel) } =
                      { n \in NotifIds : /\ notifications[n].status = "failed"
                                         /\ notifications[n].attempts < 3
                                         /\ notifications[n].scheduledFor <= now }
                /\ \A k1, k2 \in 1..Len(rt'[r].sel) :
                      rt'[r].sel[k1] = rt'[r].sel[k2] => k1 = k2
                /\ rt'[r].idx = 1
                /\ notifications' = notifications
          /\ (rt[r].pc = "saving" /\ rt'[r] # rt[r]) =>
                LET n == rt[r].sel[rt[r].idx]
                IN  /\ notifications'[n] = [notifications[n] EXCEPT !.status = "pending"]
                    /\ \A m \in NotifIds : m # n => notifications'[m] = notifications[m]
                    /\ delivered' = delivered
                    /\ IF rt[r].idx = Len(rt[r].sel)
                       THEN rt'[r].pc = "idle" /\ rresult' = Len(rt[r].sel)
                       ELSE /\ rt'[r].pc = "saving" /\ rt'[r].sel = rt[r].sel
                            /\ rt'[r].idx = rt[r].idx + 1
      ]_vars

\* a sweep reset two failed Notifications and returned 2; a Notification is
\* pending again with its attempt counted
C13_Witness ==
    /\ rresult = 2
    /\ \E n \in NotifIds :
          /\ notifications[n].status = "pending"
          /\ notifications[n].attempts >= 1

\* C14: a Notification that is failed with 3 attempts stays failed and is
\* not delivered.
C14_DeadStaysFailed ==
    [][\A n \in NotifIds :
          (notifications[n].status = "failed" /\ notifications[n].attempts = MaxAttempts) =>
              /\ notifications'[n].status = "failed"
              /\ delivered'[n] = delivered[n]
      ]_vars

----------------------------------------------------------------------------
\* Properties of the background processing.

\* C15: with nothing but the background processing running, a Notification
\* that is failed with fewer than 3 attempts is eventually pending again.
C15_BackgroundRetries ==
    \A n \in 1..2 :
        (notifications[n].status = "failed" /\ notifications[n].attempts < MaxAttempts)
            ~> (notifications[n].status = "pending")

\* C16: once the background services have started, a pending Notification
\* whose scheduledFor has passed is eventually attempted (sent or failed).
C16_PendingEventuallyAttempted ==
    \A n \in 1..2 :
        (/\ srv.pc = "up"
         /\ notifications[n].status = "pending"
         /\ notifications[n].scheduledFor <= now)
            ~> (notifications[n].status \in {"sent", "failed"})

----------------------------------------------------------------------------
\* Properties of scheduleNotifications.

\* the stored Notifications of Activity aid with the given type
NotifsOf(notifs, aid, type) ==
    { n \in 1..Len(notifs) :
        notifs[n].activityId = aid /\ notifs[n].notificationType = type }

\* caller k inserts a Notification of the given type in this step
Inserts(k, type) ==
    /\ sch[k].pc = type
    /\ sch'[k] # sch[k]
    /\ Len(notifications') = Len(notifications) + 1

\* C17: an invocation goes for the insert of a start Notification if and
\* only if its Activity has a start date and that date is after the `now` of
\* the invocation; the document it then inserts (unless one is stored
\* already) is a pending start Notification of that Activity scheduled for
\* the start date; a start Notification enters the Store in no other way.
C17_StartCandidate ==
    /\ [](\A n \in NotifIds :
            notifications[n].notificationType = "start" =>
                /\ activities[notifications[n].activityId].startDate # NoDate
                /\ notifications[n].scheduledFor =
                      activities[notifications[n].activityId].startDate)
    /\ [][/\ \A k \in SchedCallers :
               /\ (sch[k].pc = "idle" /\ sch'[k].pc # "idle") =>
                     LET act == activities'[sch'[k].aid]
                     IN  /\ sch'[k].now = now
                         /\ sch'[k].pc = "start" <=>
                               (act.startDate # NoDate /\ act.startDate > now)
               /\ (sch[k].pc = "start" /\ sch'[k] # sch[k]) =>
                     LET act == activities[sch[k].aid]
                     IN  IF NotifsOf(notifications, sch[k].aid, "start") = {}
                         THEN notifications' =
                                Append(notifications,
                                       [activityId |-> sch[k].aid, userId |-> act.userId,
                                        notificationType |-> "start",
                                        scheduledFor |-> act.startDate,
                                        sentAt |-> NoDate, status |-> "pending",
                                        error |-> NoError, attempts |-> 0])
                         ELSE notifications' = notifications
          /\ (/\ Len(notifications') > Len(notifications)
              /\ notifications'[Len(notifications')].notificationType = "start") =>
                \E q \in SchedCallers :
                     /\ Inserts(q, "start")
                     /\ activities[sch[q].aid].startDate > sch[q].now
       ]_vars

\* an Activity has its start Notification, and an invocation made for it at
\* the instant of its start skipped the start candidate
C17_Witness ==
    \E k \in SchedCallers :
        /\ sch[k].pc \in {"reminder", "return"}
        /\ activities[sch[k].aid].startDate = sch[k].now
        /\ sch[k].created = <<>>
        /\ NotifsOf(notifications, sch[k].aid, "start") # {}

\* C18: an invocation goes for the insert of a reminder Notification if and
\* only if the due date minus one day is after the `now` of the invocation;
\* the document it then inserts (unless one is stored already) is a pending
\* reminder of that Activity scheduled for the due date minus one day, which
\* is after that `now`; every stored reminder is scheduled one day before
\* the due date of its Activity and entered the Store in this way.
C18_ReminderCandidate ==
    /\ [](\A n \in NotifIds :
            notifications[n].notificationType = "reminder" =>
                notifications[n].scheduledFor =
                    activities[notifications[n].activityId].dueDate - OneDay)
    /\ [][/\ \A k \in SchedCallers :
               /\ (sch[k].pc \in {"idle", "start"} /\ sch'[k].pc \in {"reminder", "return"}) =>
                     (sch'[k].pc = "reminder" <=>
                         activities'[sch'[k].aid].dueDate - OneDay > sch'[k].now)
               /\ (sch[k].pc = "reminder" /\ sch'[k] # sch[k]) =>
                     LET act == activities[sch[k].aid]
                     IN  /\ sch'[k].pc = "return"
                         /\ IF NotifsOf(notifications, sch[k].aid, "reminder") = {}
                            THEN notifications' =
                                   Append(notifications,
                                          [activityId |-> sch[k].aid, userId |-> act.userId,
                                           notificationType |-> "reminder",
                                           scheduledFor |-> act.dueDate - OneDay,
                                           sentAt |-> NoDate, status |-> "pending",
                                           error |-> NoError, attempts |-> 0])
                            ELSE notifications' = notifications
          /\ (/\ Len(notifications') > Len(notifications)
              /\ notifications'[Len(notifications')].notificationType = "reminder") =>
                \E q \in SchedCallers :
                     /\ Inserts(q, "reminder")
                     /\ notifications'[Len(notifications')].scheduledFor > sch[q].now
       ]_vars

\* a reminder is stored, and an invocation made one day before the due date
\* of its Activity returned without creating one
C18_Witness ==
    /\ \E n \in NotifIds : notifications[n].notificationType = "reminder"
    /\ \E k \in SchedCallers :
          /\ sch[k].pc = "return"
          /\ activities[sch[k].aid].dueDate - OneDay = sch[k].now
          /\ NotifsOf(notifications, sch[k].aid, "reminder") = {}

\* C19: a request invokes scheduleNotifications only in the step that
\* stored a new Activity, for that Activity, whose due date is not before
\* the start of the day of the request; a step that skips an observation
\* (past, found stored, or rejected by the unique index) invokes nothing and
\* changes no Notification; Notifications are inserted by the invocations
\* only.
C19_ScheduledOnlyWhenCreated ==
    [][/\ \A r \in RunSlots :
            /\ (sch[r].pc = "idle" /\ sch'[r].pc # "idle") =>
                  /\ run[r].pc = "create"
                  /\ Len(activities') = Len(activities) + 1
                  /\ sch'[r].aid = Len(activities')
                  /\ activities'[sch'[r].aid].dueDate # NoDate
                  /\ activities'[sch'[r].aid].dueDate >= run[r].today
                  /\ \A a \in 1..Len(activities) :
                        Identity(activities[a]) # Identity(activities'[sch'[r].aid])
            /\ (/\ run[r].pc \in {"ingest", "create"} /\ run'[r].pc = "ingest"
                /\ run'[r].todo # run[r].todo) =>
                  /\ notifications' = notifications
                  /\ activities' = activities
                  /\ sch[r].pc = "idle" /\ sch'[r].pc = "idle"
                  /\ run'[r].scheduled = run[r].scheduled
       /\ notifications' # notifications =>
            \E r \in RunSlots : sch[r].pc \in {"start", "reminder"} /\ sch'[r] # sch[r]
      ]_vars

\* a request went through a calendar with activities that are stored for
\* its User: it created no Activity and scheduled nothing
C19_Witness ==
    \E r \in RunSlots :
        /\ run[r].pc = "ingest" /\ run[r].todo = <<>>
        /\ run[r].saved = 0 /\ run[r].scheduled = 0
        /\ \E a \in ActivityIds : activities[a].userId = run[r].user
        /\ notifications # <<>>

\* C20: an insert that the unique index rejects changes nothing and raises
\* nothing: after a rejected start the reminder candidate is evaluated as
\* usual, after a rejected reminder the invocation returns; the array the
\* invocation returns holds, once each, the Notifications this invocation
\* inserted and no other, at most two of them.
C20_CollisionIsNoOp ==
    /\ [](\A k \in SchedCallers :
            /\ Len(sch[k].created) <= 2
            /\ \A i, j \in 1..Len(sch[k].created) :
                  /\ sch[k].created[i] \in NotifIds
                  /\ notifications[sch[k].created[i]].activityId = sch[k].aid
                  /\ sch[k].created[i] = sch[k].created[j] => i = j)
    /\ [][\A k \in SchedCallers :
             /\ (/\ sch[k].pc \in {"start", "reminder"} /\ sch'[k] # sch[k]
                 /\ NotifsOf(notifications, sch[k].aid, sch[k].pc) # {}) =>
                   /\ notifications' = notifications
                   /\ sch'[k].created = sch[k].created
                   /\ sch'[k].pc = IF /\ sch[k].pc = "start"
                                      /\ activities[sch[k].aid].dueDate - OneDay > sch[k].now
                                   THEN "reminder" ELSE "return"
             /\ (/\ sch[k].pc \in {"start", "reminder"} /\ sch'[k] # sch[k]
                 /\ NotifsOf(notifications, sch[k].aid, sch[k].pc) = {}) =>
                   /\ Len(notifications') = Len(notifications) + 1
                   /\ sch'[k].created = Append(sch[k].created, Len(notifications'))
             /\ (sch[k].pc = "return" /\ sch'[k].pc = "idle" /\ k \in RunSlots) =>
                   run'[k].scheduled = run[k].scheduled + Len(sch[k].created)
       ]_vars

\* the start insert of an invocation was rejected, the invocation went on
\* and returns the reminder it created, alone
C20_Witness ==
    \E k \in SchedCallers :
        /\ sch[k].pc = "return"
        /\ activities[sch[k].aid].startDate # NoDate
        /\ activities[sch[k].aid].startDate > sch[k].now
        /\ Len(sch[k].created) = 1
        /\ notifications[sch[k].created[1]].notificationType = "reminder"

----------------------------------------------------------------------------
\* Properties of POST /api/scrape.

\* C21 (as claimed): an observed activity that is due before the instant of
\* its ingestion is skipped: nothing is stored and nothing is scheduled for it.
C21_SkippedWhenDueBeforeNow ==
    [][\A r \in RunSlots :
          (/\ run[r].pc = "ingest" /\ run[r].todo # <<>> /\ run'[r] # run[r]
           /\ Head(run[r].todo).due_date < now) =>
              /\ run'[r].pc = "ingest"
              /\ run'[r].todo = Tail(run[r].todo)
              /\ activities' = activities
              /\ notifications' = notifications
      ]_vars

\* C21 (amended): the instant the due date is compared with is the start of
\* the day on which the calendar was read.  An observed activity is skipped
\* as past (nothing stored, nothing scheduled, not counted as future) if and
\* only if it has no due date or is due before that midnight, and every
\* Activity a request stores is due at or after it.
C21_PastFilterStartOfDay ==
    /\ [](\A r \in RunSlots :
            run[r].pc \in {"ingest", "create", "scheduling"} =>
                (run[r].today % OneDay = 0 /\ run[r].today <= now))
    /\ [][\A r \in RunSlots :
             /\ (run[r].pc = "ingest" /\ run[r].todo # <<>> /\ run'[r] # run[r]) =>
                   IF \/ Head(run[r].todo).due_date = NoDate
                      \/ Head(run[r].todo).due_date < run[r].today
                   THEN /\ run'[r].pc = "ingest"
                        /\ run'[r].todo = Tail(run[r].todo)
                        /\ run'[r].future = run[r].future
                        /\ activities' = activities
                        /\ notifications' = notifications
                        /\ sch' = sch
                   ELSE run'[r].future = Append(run[r].future, Head(run[r].todo))
             /\ (run[r].pc = "create" /\ activities' # activities) =>
                   /\ Len(activities') = Len(activities) + 1
                   /\ activities'[Len(activities')].dueDate >= run[r].today
       ]_vars

\* a request has just stored an Activity that was due earlier on the day of
\* its ingestion
C21_Witness ==
    \E r \in RunSlots :
        /\ run[r].pc = "scheduling"
        /\ activities[sch[r].aid].dueDate < sch[r].now
        /\ activities[sch[r].aid].dueDate >= run[r].today

\* the student loop of a request has ended: the readiness checks, the drain,
\* or the response
LoopEnded(r) ==
    \/ run[r].pc \in {"status1", "statusWait", "status2", "drainSend", "drainPause"}
    \/ run[r].resp # NoResponse

\* C22: when the student loop of a run over n students has ended, results
\* holds exactly n entries, the k-th one for the k-th student, each marked
\* success or error, whichever stage failed.
C22_OneEntryPerSubject ==
    \A r \in RunSlots :
        LoopEnded(r) =>
            /\ Len(run[r].results) = Len(run[r].students)
            /\ \A k \in 1..Len(run[r].results) :
                  /\ run[r].results[k].student = k
                  /\ run[r].results[k].status \in {"success", "error"}

\* C23: a student whose login, navigation or extraction failed has an error
\* entry, none of its later stages runs, and every student of the request
\* is processed: when the loop has ended each one has an entry.
C23_FailureIsolation ==
    /\ [](\A r \in RunSlots :
            /\ \A k \in 1..Len(run[r].results) :
                  run[r].results[k].cause # "none" => run[r].results[k].status = "error"
            /\ LoopEnded(r) =>
                  \A k \in 1..Len(run[r].students) :
                      \E e \in 1..Len(run[r].results) : run[r].results[e].student = k)
    /\ [][\A r \in RunSlots :
             (run[r].pc \in {"login", "navigate", "scrape"} /\ run'[r] # run[r]
              /\ run'[r].pc \notin {"navigate", "scrape", "ingest"}) =>
                   /\ Len(run'[r].results) = Len(run[r].results) + 1
                   /\ run'[r].results[Len(run'[r].results)].status = "error"
                   /\ run'[r].results[Len(run'[r].results)].student = run[r].i
       ]_vars

\* C24: the cool-down delay is paid exactly once between two consecutive
\* students, whatever the outcome of the earlier one: the loop moves to the
\* next student only at the end of a wait, each wait moves it by one student,
\* and so the student at position i is processed after exactly i - 1 waits
\* (n - 1 waits in a run over n students).
C24_CooldownOncePerSubject ==
    /\ [](\A r \in RunSlots :
            (run[r].pc # "idle" \/ run[r].resp # NoResponse) =>
                run[r].waits = run[r].i - 1)
    /\ [][\A r \in RunSlots :
             run[r].pc # "idle" =>
                /\ run'[r].i # run[r].i =>
                      /\ run[r].pc \in {"branchWait", "cooldown"}
                      /\ run'[r].i = run[r].i + 1
                      /\ run'[r].waits = run[r].waits + 1
                /\ run'[r].waits # run[r].waits =>
                      /\ run'[r].i = run[r].i + 1
                      /\ run'[r].pc = "findUser"
       ]_vars

\* a run over three students has processed all of them with two waits: the
\* first one failed to log in and the close of its page threw, the second
\* one failed to log in or to navigate
C24_Witness ==
    \E r \in RunSlots :
        /\ LoopEnded(r)
        /\ Len(run[r].students) = 3
        /\ run[r].waits = 2
        /\ \E e \in 1..Len(run[r].results) :
              run[r].results[e].student = 1 /\ run[r].results[e].cause = "cleanup"
        /\ \E e \in 1..Len(run[r].results) :
              /\ run[r].results[e].student = 2
              /\ run[r].results[e].cause \in {"login", "navigate"}
        /\ \E e \in 1..Len(run[r].results) :
              run[r].results[e].student = 3 /\ run[r].results[e].status = "success"

\* C25: the students of a request are processed one at a time, in input
\* order: while a student is in a stage before ingestion, the pages of all
\* earlier students have been cleaned up, each of them has its result, no
\* activity of an earlier student is left to ingest and no scheduling is in
\* progress; the loop index only moves forward, by one, to the first stage.
C25_OneSubjectAtATime ==
    /\ [](\A r \in RunSlots :
            run[r].pc \in {"findUser", "saveUser", "login", "navigate", "scrape"} =>
                /\ run[r].cleaned = run[r].i - 1
                /\ Len(run[r].results) >= run[r].i - 1
                /\ \A k \in 1..(run[r].i - 1) :
                      \E e \in 1..Len(run[r].results) : run[r].results[e].student = k
                /\ \A e \in 1..Len(run[r].results) : run[r].results[e].student < run[r].i
                /\ run[r].todo = <<>>
                /\ sch[r] = IdleSched)
    /\ [][\A r \in RunSlots :
             (run[r].pc # "idle" /\ run'[r].i # run[r].i) =>
                 /\ run'[r].i = run[r].i + 1
                 /\ run'[r].pc = "findUser"
       ]_vars

\* the third student logs in after the first one's activities were stored
\* and the second one's page was closed
C25_Witness ==
    \E r \in RunSlots :
        /\ run[r].pc = "login"
        /\ run[r].i = 3
        /\ run[r].cleaned = 2
        /\ \E a \in 1..Len(activities) : activities[a].userId = 1

\* the whatsappQueue items a request has accumulated
Queued(r) == QueueOf(run[r].results)

\* C26: after the student loop the readiness of the channel is checked once;
\* a channel found not ready is checked a second time after the wait and
\* never a third time; when the second check also finds it not ready the
\* request sends nothing and answers with the results of all students,
\* status not_ready and sent = 0.
C26_TwoChecksThenNotReady ==
    /\ [](\A r \in RunSlots :
            /\ run[r].checks <= 2
            /\ run[r].checks > 0 => LoopEnded(r)
            /\ run[r].pc = "status1" => run[r].checks = 0
            /\ run[r].pc \in {"statusWait", "status2"} => run[r].checks = 1
            /\ run[r].resp.status = "not_ready" =>
                  /\ run[r].checks = 2
                  /\ ~run[r].sawReady
                  /\ run[r].qi = 0
                  /\ run[r].totalSent = 0
                  /\ run[r].resp.sent = 0
                  /\ run[r].resp.results = run[r].results
                  /\ Len(run[r].resp.results) >= Len(run[r].students))
    /\ [][\A r \in RunSlots :
             (run[r].pc \in {"status1", "status2"} /\ run'[r].checks # run[r].checks
              /\ ~isReady["server"] /\ run'[r].resp.status # "ready") =>
                 IF run[r].pc = "status1"
                 THEN run'[r].pc = "statusWait" /\ run'[r].resp = NoResponse
                 ELSE run'[r].resp.status = "not_ready"
       ]_vars

\* a request that had queued a message answered not_ready
C26_Witness ==
    \E r \in RunSlots :
        /\ run[r].resp.status = "not_ready"
        /\ run[r].checks = 2
        /\ Queued(r) # <<>>

\* C27: a response reports the channel as ready exactly when a readiness
\* check of the request saw it ready (and the drain was executed); any other
\* response reports it unavailable with nothing delivered.
C27_ReadyOnlyIfObserved ==
    \A r \in RunSlots :
        run[r].resp # NoResponse =>
            /\ run[r].resp.status = "ready" <=> run[r].sawReady
            /\ run[r].resp.status # "ready" => run[r].resp.sent = 0

\* C28: the drain attempts the queued items one after the other, each one
\* once, and a pause follows every attempt that is not the last one, be it
\* delivered, rejected or failed with an error.
C28_PauseBetweenSends ==
    /\ [](\A r \in RunSlots :
            /\ run[r].pc \in {"drainSend", "drainPause"} =>
                  /\ run[r].sawReady
                  /\ run[r].qi \in 1..Len(Queued(r))
            /\ (run[r].resp # NoResponse /\ run[r].sawReady) =>
                  /\ run[r].resp.queued = Len(Queued(r))
                  /\ run[r].qi = Len(Queued(r)))
    /\ [][\A r \in RunSlots :
             (run[r].pc = "drainSend" /\ run'[r] # run[r]
              /\ run[r].qi < Len(Queued(r))) =>
                 /\ run'[r].pc = "drainPause"
                 /\ run'[r].qi = run[r].qi
       ]_vars

\* due within the next 7 days from the day of tnow: from its midnight to the
\* end of the seventh day after it
WithinSevenDays(d, tnow) ==
    /\ d # NoDate
    /\ d >= StartOfDay(tnow)
    /\ d < StartOfDay(tnow) + 8 * OneDay

\* the success entry the step pushes has as its whatsappQueue the activities
\* of future that satisfy Wanted, in ascending order of due date
QueueIs(r, Wanted(_)) ==
    LET entry == run'[r].results[Len(run'[r].results)]
        queue == entry.whatsappQueue
        wanted == {k \in 1..Len(run[r].future) : Wanted(run[r].future[k])}
    IN  /\ Len(run'[r].results) = Len(run[r].results) + 1
        /\ entry.status = "success"
        /\ Len(queue) = Cardinality(wanted)
        /\ \A k \in wanted : \E j \in 1..Len(queue) : queue[j] = run[r].future[k]
        /\ \A j \in 1..Len(queue) : \E k \in wanted : queue[j] = run[r].future[k]
        /\ \A j, k \in 1..Len(queue) : j < k => queue[j].due_date <= queue[k].due_date

\* the step ends the activity loop of a student and pushes its result
PushesResult(r) ==
    run[r].pc = "ingest" /\ run[r].todo = <<>> /\ run'[r] # run[r]

\* C29 (as claimed): the whatsappQueue of a student holds exactly the
\* observed non-past activities due within the next 7 days, ascending by due
\* date, also those due in the following calendar month.
C29_QueueWithinSevenDays ==
    [][\A r \in RunSlots :
          PushesResult(r) =>
              QueueIs(r, LAMBDA a : WithinSevenDays(a.due_date, now))
      ]_vars

\* C29 (amended): the whatsappQueue of a student holds exactly the observed
\* non-past activities that are due within the next 7 days and in the
\* calendar month of today, ascending by due date; an activity due within 7
\* days in the following month is left out.
C29_QueueWithinSevenDaysThisMonth ==
    [][\A r \in RunSlots :
          PushesResult(r) =>
              QueueIs(r, LAMBDA a : /\ WithinSevenDays(a.due_date, now)
                                    /\ MonthOf(a.due_date) = MonthOf(now))
      ]_vars

\* the results hold a queue in ascending order for a calendar read in
\* descending order, and the student just processed has a non-past activity
\* due within 7 days in the next month that its queue leaves out
C29_Witness ==
    \E r \in RunSlots :
        /\ run[r].pc = "finally"
        /\ run[r].i = 2
        /\ run[r].results[1].whatsappQueue = <<rMorning, rQuiz>>
        /\ run[r].future = <<rAsg, rQuiz>>
        /\ WithinSevenDays(rAsg.due_date, now)
        /\ Len(run[r].results) = 2
        /\ run[r].results[2].whatsappQueue = <<rQuiz>>

\* C30: a User record exists only for a username that was ingested
\* successfully, or whose student is being processed and has not failed; a
\* student whose login failed leaves none.  A record, once created, changes
\* only in its whatsapp number and is never deleted.
C30_SubjectAfterFirstSuccess ==
    /\ [](\A u \in 1..Len(users) :
            \E r \in RunSlots :
                \/ \E e \in 1..Len(run[r].results) :
                      /\ run[r].results[e].status = "success"
                      /\ run[r].students[run[r].results[e].student].username
                            = users[u].username
                \/ /\ run[r].pc \in {"login", "navigate", "scrape",
                                     "ingest", "create", "scheduling"}
                   /\ Student(r).username = users[u].username)
    /\ [][/\ Len(users') >= Len(users)
          /\ \A u \in 1..Len(users) :
                users'[u] = [users[u] EXCEPT !.whatsapp = users'[u].whatsapp]
       ]_vars

----------------------------------------------------------------------------
\* Properties of the Store records.

\* C31: an Activity, once inserted, never changes in any field and is never
\* removed, also when the same identity is observed again with another
\* type, open date or link.
C31_ActivitiesImmutable ==
    [][/\ Len(activities') >= Len(activities)
       /\ \A a \in 1..Len(activities) : activities'[a] = activities[a]
      ]_vars

\* the second reading of the calendar shows the stored activity with another
\* type, open date and link
C31_Witness ==
    \E r \in RunSlots, a \in 1..Len(activities) :
        /\ run[r].pc = "finally"
        /\ run[r].i = 2
        /\ run[r].future # <<>>
        /\ activities[a].activityHash
              = generateHash(run[r].user, run[r].future[1].course_code,
                             run[r].future[1].title, run[r].future[1].due_date)
        /\ activities[a].activityType # run[r].future[1].activity_type
        /\ activities[a].startDate # run[r].future[1].start_date
        /\ activities[a].link # run[r].future[1].link

\* the Notifications stored for Activity a
AllNotifsOf(notifs, a) == { n \in 1..Len(notifs) : notifs[n].activityId = a }

\* C32: the Notifications of an Activity are created only by the
\* scheduleNotifications invocation that the request started in the step
\* that inserted the Activity; once that invocation has ended (it returned,
\* it threw, or the process died) no step, and so no later ingestion of the
\* same activity, adds a Notification for it, and none is ever removed.
C32_NoRepair ==
    [][/\ Len(notifications') >= Len(notifications)
       /\ \A n \in 1..Len(notifications) :
             /\ notifications'[n].activityId = notifications[n].activityId
             /\ notifications'[n].notificationType = notifications[n].notificationType
       /\ \A r \in RunSlots :
             /\ (run'[r].pc = "scheduling" /\ run[r].pc # "scheduling") =>
                   /\ Len(activities') = Len(activities) + 1
                   /\ sch'[r].aid = Len(activities')
             /\ (run'[r].pc = "scheduling" /\ run[r].pc = "scheduling") =>
                   sch'[r].aid = sch[r].aid
             /\ run'[r].pc # "scheduling" => sch'[r].pc = "idle"
       /\ \A a \in 1..Len(activities) :
             AllNotifsOf(notifications', a) # AllNotifsOf(notifications, a) =>
                 \E r \in RunSlots :
                     /\ run[r].pc = "scheduling" /\ run'[r].pc = "scheduling"
                     /\ sch[r].aid = a
      ]_vars

\* an Activity whose scheduling did not complete has no Notification although
\* its reminder is still ahead, and the request has since read it again
C32_Witness ==
    \E r \in RunSlots, a \in 1..Len(activities) :
        /\ AllNotifsOf(notifications, a) = {}
        /\ ReminderCandidate(activities[a], now)
        /\ run[r].pc = "finally"
        /\ run[r].saved = 0
        /\ sch[r].pc = "idle"
        /\ run[r].future # <<>>
        /\ activities[a].activityHash
              = generateHash(run[r].user, run[r].future[1].course_code,
                             run[r].future[1].title, run[r].future[1].due_date)

----------------------------------------------------------------------------
\* Properties of the background server.

\* C33: on a shutdown signal the interval is cleared first and no cycle
\* starts afterwards; the WhatsApp client and the Store connection are
\* released only when no cycle is in flight, and after the release of the
\* client no cycle delivers a message or writes a Notification.
C33_GracefulShutdown ==
    [][/\ (srv.pc = "up" /\ srv'.pc # "up") => ~srv'.processInterval
       /\ srv.pc # "up" =>
             \A c \in ServerSlots : cyc[c].pc = "idle" => cyc'[c].pc = "idle"
       /\ (srv'.pc # srv.pc /\ srv'.pc \in {"closing", "exited"}) =>
             \A c \in ServerSlots : cyc[c].pc = "idle"
       /\ srv.pc \in {"closing", "exited"} =>
             /\ notifications' = notifications
             /\ delivered' = delivered
      ]_vars

----------------------------------------------------------------------------
\* Properties of the dispatch loop.

\* the step of cycle c records a failure: a send that threw, or a
\* Notification of an inactive User
RecordsFailure(c) ==
    /\ cyc[c].pc \in {"loop", "sending"}
    /\ cyc'[c] # cyc[c]
    /\ cyc[c].idx \in 1..Len(cyc[c].sel)
    /\ notifications'[cyc[c].sel[cyc[c].idx].id].status = "failed"
    /\ notifications'[cyc[c].sel[cyc[c].idx].id] # notifications[cyc[c].sel[cyc[c].idx].id]

\* C34: a failure of one selected Notification (its send threw, or its User
\* is inactive) is recorded on that Notification alone, and the cycle stays
\* in its loop at the next selected Notification; with the channel ready
\* the loop head then attempts or skips that one and does not return before
\* the selection is exhausted.
C34_FailureIsolated ==
    [][\A c \in CycleSlots :
          /\ RecordsFailure(c) =>
                /\ \A m \in NotifIds :
                      m # cyc[c].sel[cyc[c].idx].id => notifications'[m] = notifications[m]
                /\ Len(notifications') = Len(notifications)
                /\ delivered' = delivered
                /\ cyc'[c].pc = "loop"
                /\ cyc'[c].sel = cyc[c].sel
                /\ cyc'[c].idx = cyc[c].idx + 1
                /\ cyc'[c].failed = cyc[c].failed + 1
                /\ isProcessing'[ProcOf(c)]
          /\ (/\ cyc[c].pc = "loop" /\ cyc'[c] # cyc[c]
              /\ cyc[c].idx \in 1..Len(cyc[c].sel) /\ isReady[ProcOf(c)]) =>
                \/ cyc'[c].pc = "sending" /\ cyc'[c].idx = cyc[c].idx
                \/ cyc'[c].pc = "loop" /\ cyc'[c].idx = cyc[c].idx + 1
      ]_vars

\* the first selected Notification failed and the cycle is sending the
\* second one
C34_Witness ==
    \E c \in CycleSlots :
        /\ cyc[c].pc = "sending"
        /\ cyc[c].idx = 2
        /\ cyc[c].failed = 1
        /\ notifications[cyc[c].sel[1].id].status = "failed"

----------------------------------------------------------------------------
\* Properties of the content identity.

\* C35: the hash of an observed activity equals the hash of a stored
\* Activity exactly when the two agree in User, course code, title and due
\* date; type, open date and link play no part.
C35_HashIsTheFourTuple ==
    \A r \in RunSlots :
        (run[r].pc = "ingest" /\ run[r].todo # <<>>) =>
            \A a \in 1..Len(activities) :
                activities[a].activityHash = HeadHash(r)
                    <=> /\ activities[a].userId = run[r].user
                        /\ activities[a].courseCode = Head(run[r].todo).course_code
                        /\ activities[a].title = Head(run[r].todo).title
                        /\ activities[a].dueDate = Head(run[r].todo).due_date

----------------------------------------------------------------------------
\* Properties of the User records.

\* C36: the password field of a User record holds nothing that was computed
\* from the password its student sent in the request body (the field of a
\* stored record is always the result of the pre('save') hook, never the
\* plain string).
C36_PasswordNotStored ==
    \A u \in 1..Len(users), r \in RunSlots :
        \A k \in 1..Len(run[r].students) :
            run[r].students[k].username = users[u].username =>
                users[u].password # Bcrypt(run[r].students[k].password)

----------------------------------------------------------------------------
\* Properties of the attempts counter.

\* C37: attempts of every Notification stays within 0..3, never decreases,
\* and grows only in a step that leaves the Notification failed.
C37_AttemptsBounded ==
    /\ [](\A n \in NotifIds : notifications[n].attempts \in 0..MaxAttempts)
    /\ [][\A n \in NotifIds :
             /\ notifications'[n].attempts >= notifications[n].attempts
             /\ notifications'[n].attempts > notifications[n].attempts =>
                   notifications'[n].status = "failed"
       ]_vars

----------------------------------------------------------------------------
\* Properties of the re-entrancy flag.

\* the cycles of process p that are executing
Running(p) == {c \in CycleSlots : ProcOf(c) = p /\ cyc[c].pc # "idle"}

\* C38: isProcessing of a process is true exactly while one of its cycles is
\* executing; a cycle that ends, by returning or by throwing, resets it; an
\* invocation the guard turns away leaves the flag and the running cycle
\* alone; an invocation made while no cycle of the process is executing
\* always issues the query.
C38_FlagReleased ==
    /\ [](\A p \in Procs :
            /\ isProcessing[p] <=> Running(p) # {}
            /\ Cardinality(Running(p)) <= 1)
    /\ [][\A c \in CycleSlots :
             /\ (cyc[c].pc # "idle" /\ cyc'[c].pc = "idle") =>
                   /\ ~isProcessing'[ProcOf(c)]
                   /\ result'.slot = c
                   /\ result'.kind \in {"completed", "aborted", "threw"}
             /\ (result' # result /\ result'.kind = "skipped" /\ result'.slot = c) =>
                   /\ Running(ProcOf(c)) # {}
                   /\ isProcessing' = isProcessing
                   /\ cyc' = cyc
             /\ (result' # result /\ result'.slot = c) => Running(ProcOf(c)) # {}
             /\ (cyc[c].pc = "idle" /\ cyc'[c].pc # "idle") =>
                   /\ Running(ProcOf(c)) = {}
                   /\ cyc'[c].pc = "find"
                   /\ isProcessing'[ProcOf(c)]
       ]_vars

\* a cycle of the background server threw, and a later invocation of the
\* same process is executing its query
C38_Witness ==
    /\ result.kind = "threw"
    /\ ProcOf(result.slot) = "server"
    /\ \E c \in CycleSlots :
          /\ ProcOf(c) = "server"
          /\ cyc[c].pc = "find"
          /\ cyc[c].now > 0
    /\ isProcessing["server"]

----------------------------------------------------------------------------
\* Properties of the drain.

\* C39: the response after a drain reports sent + failed = queued: every
\* queued item is counted once, as sent or as failed, whatever the outcome
\* of its send.
C39_CountsAddUp ==
    \A r \in RunSlots :
        (run[r].resp # NoResponse /\ run[r].sawReady) =>
            /\ run[r].resp.queued = Len(Queued(r))
            /\ run[r].resp.sent + run[r].resp.failed = run[r].resp.queued

\* the step takes the next activity of the student's calendar
TakesActivity(r) ==
    run[r].pc = "ingest" /\ run[r].todo # <<>> /\ run'[r] # run[r]

\* C40: the whatsappQueue of a student is taken from all the non-past
\* activities of the calendar, those already stored as well as the new
\* ones, and a step of the drain, delivered or not, leaves every Activity
\* and every Notification as it is.
C40_DrainIndependentOfStore ==
    [][\A r \in RunSlots :
          /\ TakesActivity(r) =>
                run'[r].future =
                    IF isPast(Head(run[r].todo).due_date, run[r].today)
                    THEN run[r].future
                    ELSE Append(run[r].future, Head(run[r].todo))
          /\ PushesResult(r) =>
                LET queue == run'[r].results[Len(run'[r].results)].whatsappQueue
                IN  /\ \A j \in 1..Len(queue) :
                          \E k \in 1..Len(run[r].future) : queue[j] = run[r].future[k]
                    /\ \A k \in 1..Len(run[r].future) :
                          ( /\ WithinSevenDays(run[r].future[k].due_date, now)
                            /\ MonthOf(run[r].future[k].due_date) = MonthOf(now) )
                          => \E j \in 1..Len(queue) : queue[j] = run[r].future[k]
          /\ (run[r].pc \in {"drainSend", "drainPause"} /\ run'[r] # run[r]) =>
                /\ activities' = activities
                /\ notifications' = notifications
      ]_vars

\* both students of a request share the stored Activities, created for the
\* first and found stored for the second; the message of each queued item
\* was delivered and a Notification of these Activities is still pending
C40_Witness ==
    \E r \in RunSlots :
        /\ run[r].resp # NoResponse
        /\ run[r].resp.status = "ready"
        /\ run[r].resp.sent = Len(Queued(r))
        /\ Len(run[r].results) = 2
        /\ run[r].results[1].whatsappQueue # <<>>
        /\ run[r].results[2].whatsappQueue = run[r].results[1].whatsappQueue
        /\ Len(activities) = Len(run[r].results[1].whatsappQueue)
        /\ \E n \in 1..Len(notifications) : notifications[n].status = "pending"

====
